---- MODULE Spec2Model ----
(***************************************************************************)
(* Model of the GUT RAG service: the relational store (database.py), the   *)
(* per-tenant vector collections (ingestion.py, retrieval.py) and the      *)
(* request handlers of api.py that coordinate the two stores.              *)
(*                                                                         *)
(* Strings produced by the code with f-strings are built with \o, so that  *)
(* two names or ids are equal in the model exactly when the code's strings *)
(* are equal.                                                              *)
(***************************************************************************)
EXTENDS Integers, Sequences, FiniteSets, TLC

VARIABLES
    clients,              \* table clients: set of rows
    products,             \* table products: set of rows
    product_seq,          \* the SERIAL sequence behind products.id (last value handed out)
    clock,                \* the database server's clock (CURRENT_TIMESTAMP of the last transaction)
    chroma,               \* the persistent vector store: collection name -> set of records
    ingestion_instances,  \* api.ingestion_instances: client_id -> the tenant's TextIngestion
    text_retrievers,      \* RAGAgent.text_retrievers: client_id -> the tenant's TextRetriever
    req,                  \* per worker: the request it is handling and its position in the handler
    nreq,                 \* number of requests accepted so far
    concurrent,           \* FALSE: one request at a time (handlers run to completion on the event loop)
    last_ingest           \* history: the ingest_text call that returned last, if no purge followed it

vars == <<clients, products, product_seq, clock, chroma, ingestion_instances,
          text_retrievers, req, nreq, concurrent, last_ingest>>

-----------------------------------------------------------------------------
(* Bounds of the model *)

MaxRequests == 2

Workers == {1, 2}

-----------------------------------------------------------------------------
(* Values *)

NONE == "<None>"              \* Python None / SQL NULL
JSON_NULL == "<json null>"    \* Json(None): the JSON literal null stored in a JSONB column

TEXT_COLLECTION_NAME == "text_embeddings"

ClientIds == {"A", "B"}
ProductIds == {"p1", "p2"}

\* A text is a string in which every character stands for one paragraph of
\* the real text (paragraphs are separated by blank lines). A letter stands
\* for a paragraph longer than half of CHUNK_SIZE and not longer than
\* CHUNK_SIZE, so the splitter neither merges two of them nor cuts one; " "
\* stands for a paragraph of white space only. "" is the empty string.

\* Python truthiness of an Optional[str]
Truthy(content) == content # NONE /\ content # ""

RECURSIVE split_text(_)
\* RecursiveCharacterTextSplitter.split_text: the ordered chunks of a text;
\* chunks are stripped and a chunk that is empty after stripping is dropped.
split_text(text) ==
    IF text = "" THEN <<>>
    ELSE IF Head(text) = " " THEN split_text(Tail(text))
         ELSE <<Head(text)>> \o split_text(Tail(text))

\* OllamaEmbeddings.embed_documents / embed_query: one vector per input, a
\* function of the input text alone.
embed(chunk) == "vec(" \o chunk \o ")"

embed_documents(chunks) == [i \in 1..Len(chunks) |-> embed(chunks[i])]

Min(a, b) == IF a < b THEN a ELSE b

-----------------------------------------------------------------------------
(* Relational store: database.py *)

db_create_clientMut_no_insert(cl, now, client_id, name) == cl
\* INSERT INTO clients ... ON CONFLICT (client_id) DO UPDATE SET name = EXCLUDED.name
\* with the values (client_id, name or client_id), in a transaction starting at now.
db_create_client(cl, now, client_id, name) ==
    LET n == IF name = NONE \/ name = "" THEN client_id ELSE name
        old == {r \in cl : r.client_id = client_id}
    IN IF old = {}
       THEN cl \cup {[client_id |-> client_id, name |-> n, created_at |-> now]}
       ELSE (cl \ old) \cup {[r EXCEPT !.name = n] : r \in old}

\* product_data.get(key): the value, or None when the key is absent
Get(pd, key) == IF key \in DOMAIN pd THEN pd[key] ELSE NONE

\* Json(product_data.get("metadata", {})): a missing key stores {}, a None value stores JSON null
JsonMetadata(pd) ==
    IF "metadata" \notin DOMAIN pd THEN "{}"
    ELSE IF pd["metadata"] = NONE THEN JSON_NULL ELSE pd["metadata"]

ConflictMut_id_only(rows, client_id, id_produit) ==
    {r \in rows : r.id_produit = id_produit}
\* the rows that conflict with a new row on UNIQUE(id_produit, client_id)
Conflict(rows, client_id, id_produit) ==
    {r \in rows : r.id_produit = id_produit /\ r.client_id = client_id}

UpsertMut_keep_updated_at(rows, seq, now, client_id, pd) ==
    LET old == Conflict(rows, client_id, pd.id_produit)
    IN IF old = {}
       THEN rows \cup {[id |-> seq, id_produit |-> pd.id_produit, client_id |-> client_id,
                        source_file |-> Get(pd, "source_file"), content |-> Get(pd, "content"),
                        metadata |-> JsonMetadata(pd), created_at |-> now, updated_at |-> now]}
       ELSE (rows \ old) \cup
            {[r EXCEPT !.source_file = Get(pd, "source_file"), !.content = Get(pd, "content"),
                       !.metadata = JsonMetadata(pd)] : r \in old}
\* INSERT INTO products ... ON CONFLICT (id_produit, client_id) DO UPDATE SET
\* source_file, content, metadata = EXCLUDED..., updated_at = CURRENT_TIMESTAMP.
\* seq is the value nextval() hands to the proposed row.
Upsert(rows, seq, now, client_id, pd) ==
    LET old == Conflict(rows, client_id, pd.id_produit)
    IN IF old = {}
       THEN rows \cup {[id |-> seq, id_produit |-> pd.id_produit, client_id |-> client_id,
                        source_file |-> Get(pd, "source_file"), content |-> Get(pd, "content"),
                        metadata |-> JsonMetadata(pd), created_at |-> now, updated_at |-> now]}
       ELSE (rows \ old) \cup
            {[r EXCEPT !.source_file = Get(pd, "source_file"), !.content = Get(pd, "content"),
                       !.metadata = JsonMetadata(pd), !.updated_at = now] : r \in old}

RECURSIVE UpsertAll(_, _, _, _, _)
\* the for loop of bulk_upsert_products: one INSERT ... ON CONFLICT per item,
\* all in one transaction (one CURRENT_TIMESTAMP)
UpsertAll(rows, seq, now, client_id, items) ==
    IF items = <<>> THEN rows
    ELSE UpsertAll(Upsert(rows, seq + 1, now, client_id, Head(items)),
                   seq + 1, now, client_id, Tail(items))

\* WHERE client_id = %s AND id_produit = %s
Where(rows, client_id, id_produit) ==
    {r \in rows : r.client_id = client_id /\ r.id_produit = id_produit}

\* SELECT * FROM products WHERE client_id = %s AND id_produit = %s; fetchone()
\* (the result as a set: empty for None, else the one row fetched)
db_get_product(rows, client_id, id_produit) ==
    LET hit == Where(rows, client_id, id_produit)
    IN IF hit = {} THEN {} ELSE {CHOOSE r \in hit : TRUE}

\* COALESCE(new, old)
Coalesce(new, old) == IF new = NONE THEN old ELSE new

\* Json(product_data.get("metadata")) if product_data.get("metadata") else None
UpdateMetadataParam(pd) ==
    LET m == Get(pd, "metadata") IN IF m = NONE \/ m = "{}" THEN NONE ELSE m

\* UPDATE products SET source_file = COALESCE(%s, source_file), ... , updated_at = CURRENT_TIMESTAMP
\* WHERE client_id = %s AND id_produit = %s
db_update_rows(rows, now, client_id, id_produit, pd) ==
    LET hit == Where(rows, client_id, id_produit)
    IN (rows \ hit) \cup
       {[r EXCEPT !.source_file = Coalesce(Get(pd, "source_file"), r.source_file),
                  !.content = Coalesce(Get(pd, "content"), r.content),
                  !.metadata = Coalesce(UpdateMetadataParam(pd), r.metadata),
                  !.updated_at = now] : r \in hit}

\* DELETE FROM products WHERE client_id = %s AND id_produit = %s
db_delete_rows(rows, client_id, id_produit) == rows \ Where(rows, client_id, id_produit)

\* list_products(client_id, limit: int = 100, offset: int = 0)
DefaultLimit == 100

product_ordersMut_ascending(rows) ==
    {o \in [1..Cardinality(rows) -> rows] :
        \A i, j \in 1..Cardinality(rows) :
           i < j => o[i] # o[j] /\ o[i].updated_at <= o[j].updated_at}
\* the orders ORDER BY updated_at DESC may give a set of rows (rows with equal
\* updated_at in any order)
product_orders(rows) ==
    {o \in [1..Cardinality(rows) -> rows] :
        \A i, j \in 1..Cardinality(rows) :
           i < j => o[i] # o[j] /\ o[i].updated_at >= o[j].updated_at}

\* SELECT * FROM products WHERE client_id = %s ORDER BY updated_at DESC
\* LIMIT %s OFFSET %s: the lists the statement may return
db_list_products(rows, client_id, limit, offset) ==
    {SubSeq(o, offset + 1, Min(offset + limit, Len(o))) :
        o \in product_orders({r \in rows : r.client_id = client_id})}

on_delete_cascadeMut_none(rows, client_id) == rows
\* FOREIGN KEY (client_id) REFERENCES clients(client_id) ON DELETE CASCADE:
\* the products table after the clients row of client_id is deleted
on_delete_cascade(rows, client_id) == {r \in rows : r.client_id # client_id}

\* DELETE FROM clients WHERE client_id = %s
db_delete_client_rows(cl, client_id) == {c \in cl : c.client_id # client_id}

-----------------------------------------------------------------------------
(* Vector store: chromadb as used by ingestion.py and retrieval.py *)

collection_nameMut_shared(client_id) == TEXT_COLLECTION_NAME
\* f"{TEXT_COLLECTION_NAME}_{self.client_id}"
collection_name(client_id) == TEXT_COLLECTION_NAME \o "_" \o client_id

\* client.get_or_create_collection(name=...)
get_or_create_collection(store, name) ==
    IF name \in DOMAIN store THEN store ELSE store @@ (name :> {})

chunk_idMut_index_only(source, i) == "_" \o ToString(i)
\* f"{source}_{i}", i counted from 0
chunk_id(source, i) == source \o "_" \o ToString(i)

\* the batch ingest_text hands to collection.add: ids, documents, embeddings
\* and metadatas, one entry per chunk (index 1 of the sequence is chunk 0).
\* writer is not stored by the code: it records which tenant's request built
\* the record.
ingest_batch(chunks, source, writer) ==
    LET embeddings == embed_documents(chunks)
    IN [i \in 1..Len(chunks) |->
          [id |-> chunk_id(source, i - 1), document |-> chunks[i],
           embedding |-> embeddings[i], source |-> source, writer |-> writer]]

\* os.path.basename(file_path)
basename(file_path) ==
    LET slashes == {i \in 1..Len(file_path) : SubSeq(file_path, i, i) = "/"}
        last == CHOOSE i \in slashes : \A j \in slashes : j <= i
    IN IF slashes = {} THEN file_path ELSE SubSeq(file_path, last + 1, Len(file_path))

RECURSIVE replace_dots(_)
\* name.replace(".", "_")
replace_dots(name) ==
    IF name = "" THEN ""
    ELSE (IF SubSeq(name, 1, 1) = "." THEN "_" ELSE SubSeq(name, 1, 1))
         \o replace_dots(SubSeq(name, 2, Len(name)))

\* ingest_file: base_id = os.path.basename(file_path).replace(".", "_")
base_id(file_path) == replace_dots(basename(file_path))

\* ingest_file: the arguments of collection.add, ids = [f"{base_id}_{i}" ...],
\* metadatas = [{"source": file_path}] * len(texts)
ingest_file_batch(chunks, file_path, writer) ==
    [i \in 1..Len(chunks) |->
       [ingest_batch(chunks, file_path, writer)[i] EXCEPT !.id = chunk_id(base_id(file_path), i - 1)]]

Ids(coll) == {r.id : r \in coll}

collection_addMut_no_id_check(coll, batch) == coll \cup {batch[i] : i \in 1..Len(batch)}
\* collection.add(ids, documents, embeddings, metadatas): a record whose id
\* is already in the collection is ignored, the stored record stays as it is
collection_add(coll, batch) ==
    coll \cup {r \in {batch[i] : i \in 1..Len(batch)} : r.id \notin Ids(coll)}

collection_deleteMut_all(coll, source) == {}
\* collection.delete(where={"source": source})
collection_delete(coll, source) == {r \in coll : r.source # source}

\* f"product_{id_produit}"
product_source(id_produit) == "product_" \o id_produit

\* TextIngestion(client_id=client_id): a new object holding the handle of the
\* tenant's collection. by tells the objects of one class and tenant apart:
\* it is the number of the request that constructed the object.
TextIngestion(client_id, by) ==
    [class |-> "TextIngestion", collection |-> collection_name(client_id), by |-> by]

\* TextRetriever(client_id=client_id)
TextRetriever(client_id, by) ==
    [class |-> "TextRetriever", collection |-> collection_name(client_id), by |-> by]

NoInstance == [class |-> NONE, collection |-> NONE, by |-> 0]

cache_lookupMut_always_new(cache, client_id, fresh) ==
    [c \in DOMAIN cache \cup {client_id} |-> IF c = client_id THEN fresh ELSE cache[c]]
\* if client_id not in cache: cache[client_id] = fresh
\* (the dict afterwards; the caller returns cache[client_id])
cache_lookup(cache, client_id, fresh) ==
    IF client_id \in DOMAIN cache THEN cache ELSE cache @@ (client_id :> fresh)

-----------------------------------------------------------------------------
(* Requests *)

Sources == {"s", "product_p1"}     \* source labels given to POST /ingest/text
IngestTexts == {"x", "yz"}
Queries == {"x", "y", "q"}       \* queries given to TextRetriever.search
Questions == {"x", "q"}          \* questions given to POST /query
TopKs == {1, 2}

\* ProductRequest.model_dump(): every field is a key
ProductData(id_produit, source_file, content, metadata) ==
    [k \in {"id_produit", "source_file", "content", "metadata"} |->
       CASE k = "id_produit" -> id_produit
         [] k = "source_file" -> source_file
         [] k = "content" -> content
         [] k = "metadata" -> metadata]

\* the bodies of POST /products/{client_id} for one id_produit
ProductRequests(p) ==
    { ProductData(p, NONE, NONE, NONE), ProductData(p, NONE, " ", NONE),
      ProductData(p, "f.html", "x", "{t}"), ProductData(p, "f.html", "yz", "{t}") }

\* ProductUpdateRequest.model_dump(exclude_none=True): only the fields that are not None
UpdateData(source_file, content, metadata) ==
    LET all == [k \in {"source_file", "content", "metadata"} |->
                  CASE k = "source_file" -> source_file
                    [] k = "content" -> content
                    [] k = "metadata" -> metadata]
    IN [k \in {k \in DOMAIN all : all[k] # NONE} |-> all[k]]

\* the bodies of PUT /products/{client_id}/{id_produit}
UpdateRequests ==
    { UpdateData(NONE, "", NONE), UpdateData(NONE, "x", NONE), UpdateData(NONE, "yz", NONE),
      UpdateData("g.html", NONE, "{u}"), UpdateData(NONE, NONE, "{}") }

\* the bodies of POST /products/{client_id}/bulk
BulkProducts == { ProductData("p1", NONE, "yz", NONE), ProductData("p2", NONE, "x", NONE) }
BulkLengths == {1, 2}
BulkItems == UNION { [1..n -> BulkProducts] : n \in BulkLengths }

NoCall == [collection |-> NONE, source |-> NONE, text |-> NONE, chunks |-> <<>>]

IdleReq ==
    [op |-> "idle", pc |-> "idle", client_id |-> NONE, id_produit |-> NONE,
     n |-> 0,                 \* the number of the request, in order of arrival
     ingestion |-> NoInstance,       \* local ingestion = get_ingestion(client_id)
     text_retriever |-> NoInstance,  \* local text_retriever = self.get_text_retriever(client_id)
     product |-> <<>>,        \* the request body (model_dump)
     content |-> NONE,        \* product.content of the request body
     items |-> <<>>, idx |-> 0,
     failed |-> {},           \* history: the items of a batch whose store write raised
     text |-> NONE, source |-> NONE, chunks |-> <<>>,   \* locals of ingest_text
     query |-> NONE, top_k |-> 0,
     status |-> 0,            \* HTTP status of the response, 0 while running
     chunks_count |-> -1,     \* value returned by the last ingest_text call
     count |-> -1,            \* value returned by bulk_upsert_products
     row |-> {},              \* row returned by the database call
     answer |-> <<>>,         \* the records collection.query returned, nearest first
     results |-> <<>>,        \* value returned by search
     context |-> NONE,        \* value returned by get_context
     response |-> NONE,       \* value returned by chain.invoke
     raw |-> <<>>,            \* raw_response of the vision model
     exception |-> NONE,      \* the exception that left the call, if one did
     content_text |-> NONE,   \* value returned by build_content_text
     file_path |-> NONE,      \* argument of ingest_file
     fn |-> NONE,             \* the database function that runs
     outer |-> NONE,          \* the function that called it and goes on after it
     name |-> NONE, limit |-> 0, offset |-> 0,
     conns |-> <<>>,          \* the connections the call has opened, in order
     tx |-> [clients |-> {}, products |-> {}, now |-> 0],   \* the tables as the open transaction sees them
     stmt |-> 0,              \* statements executed on the open connection
     pages |-> <<>>,          \* the products the vision model finds on each page of the PDF
     page_num |-> 0, save_to_db |-> FALSE,
     all_products |-> <<>>,   \* all_products of the PDF route
     origin |-> <<>>,         \* history: the page and the raw id of each of all_products
     llm_calls |-> <<>>,      \* history: the inputs handed to the language model, in order
     \* history of the request, not program state:
     trace |-> <<>>,          \* the store operations issued, in order
     call |-> "none",         \* the last ingest_text call: none, active, returned, raised
     before |-> {},           \* the collection when that call was entered
     prev |-> NoCall,         \* the ingest_text call that returned last before it
     pre |-> [chroma |-> <<>>, products |-> {}, clients |-> {}]]  \* the stores when the request arrived

Free(w) ==
    /\ nreq < MaxRequests
    /\ req[w].pc \in {"idle", "done"}
    /\ concurrent \/ w = 1

NewReq(op, client_id, pc) ==
    [IdleReq EXCEPT !.op = op, !.client_id = client_id, !.pc = pc, !.n = nreq + 1,
                    !.pre = [chroma |-> chroma, products |-> products, clients |-> clients]]

Accept(w, r) ==
    /\ Free(w)
    /\ req' = [req EXCEPT ![w] = r]
    /\ nreq' = nreq + 1
    /\ UNCHANGED <<clients, products, product_seq, clock, chroma, ingestion_instances,
                   text_retrievers, concurrent, last_ingest>>

\* POST /ingest/text
ingest_text_request(w) ==
    \E c \in ClientIds, t \in IngestTexts, s \in Sources :
        Accept(w, [NewReq("ingest_text", c, "get_ingestion") EXCEPT !.text = t, !.source = s])

\* source labels of which one is the record id of another: "a_0" and "a_1" are
\* the ids of the first and second chunk ingested under "a", and "a_0_1" is the
\* id of the second chunk ingested under "a_0"
Labels == {"a", "a_0", "a_1", "a_0_1"}

\* ingestion.ingest_text(text, source=label) on tenant A's collection
ingest_label_request(w) ==
    \E t \in IngestTexts, s \in Labels :
        Accept(w, [NewReq("ingest_text", "A", "get_ingestion") EXCEPT !.text = t, !.source = s])

\* POST /products/{client_id}
create_product_request(w) ==
    \E c \in ClientIds, p \in ProductIds :
      \E body \in ProductRequests(p) :
        Accept(w, [NewReq("create_product", c, "db_create") EXCEPT
                      !.id_produit = p, !.product = body, !.content = body["content"]])

\* the paths ingest_file is called with: a file in a directory, a file without
\* extension, and the temporary copy POST /ingest/file makes of an upload
FilePaths == {"docs/a.txt", "README", "/tmp/tmpk3.txt"}

\* POST /ingest/file and direct calls: ingestion.ingest_file(file_path) on a
\* file whose text the loader returns
ingest_file_request(w) ==
    \E c \in ClientIds, f \in FilePaths, t \in IngestTexts :
        Accept(w, [NewReq("ingest_file", c, "get_ingestion") EXCEPT
                      !.text = t, !.file_path = f, !.source = f])

\* PUT /products/{client_id}/{id_produit}
update_product_request(w) ==
    \E c \in ClientIds, p \in ProductIds, body \in UpdateRequests :
        Accept(w, [NewReq("update_product", c, "db_get") EXCEPT
                      !.id_produit = p, !.product = body, !.content = Get(body, "content")])

\* DELETE /products/{client_id}/{id_produit}
delete_product_request(w) ==
    \E c \in ClientIds, p \in ProductIds :
        Accept(w, [NewReq("delete_product", c, "get_ingestion") EXCEPT !.id_produit = p])

\* POST /products/{client_id}/bulk
bulk_create_products_request(w) ==
    \E c \in ClientIds, items \in BulkItems :
        Accept(w, [NewReq("bulk_create_products", c, "db_bulk") EXCEPT !.items = items])

\* the deletion of a client's row (no endpoint issues it; the schema defines
\* what it does to the products)
delete_client_request(w) ==
    \E c \in ClientIds :
        Accept(w, NewReq("delete_client", c, "db_delete_client"))

\* TextRetriever.search through the agent's retriever of the tenant
search_request(w) ==
    \E c \in ClientIds, q \in Queries, k \in TopKs :
        Accept(w, [NewReq("search", c, "get_text_retriever") EXCEPT !.query = q, !.top_k = k])

\* the name of the uploaded file of POST /extract/image
ImageFilename == "page.png"

\* POST /extract/image with save_to_db, once extract_products_from_base64 has
\* returned the products: for p in products: p["source_file"] = file.filename
extract_image_request(w) ==
    \E c \in ClientIds, items \in BulkItems :
        Accept(w, [NewReq("extract_image", c, "get_ingestion") EXCEPT
                      !.items = [i \in 1..Len(items) |->
                                    [items[i] EXCEPT !["source_file"] = ImageFilename]]])

\* ingest_json.ingest_products(client_id, products)
ingest_products_request(w) ==
    \E c \in ClientIds, items \in BulkItems :
        Accept(w, [NewReq("ingest_products", c, "ingest_products_init") EXCEPT !.items = items])

\* POST /query: agent.query(question, client_id, top_k)
query_request(w) ==
    \E c \in ClientIds, q \in Questions, k \in TopKs :
        Accept(w, [NewReq("query", c, "get_text_retriever") EXCEPT !.query = q, !.top_k = k])

-----------------------------------------------------------------------------
(* Steps of the handlers *)

Append1(seq, e) == seq \o <<e>>

\* the handler ends with a response
Respond(r, status) == [r EXCEPT !.pc = "done", !.status = status]

DbUnchanged == UNCHANGED <<clients, products, product_seq, clock>>
Others == UNCHANGED <<text_retrievers, nreq, concurrent>>

\* get_ingestion(client_id): the tenant's TextIngestion, built on first use;
\* TextIngestion.__init__ -> _init_chroma gets or creates the tenant's collection
get_ingestion(w) ==
    LET r == req[w]
        c == r.client_id
        cache == cache_lookup(ingestion_instances, c, TextIngestion(c, r.n))
        got == [r EXCEPT !.ingestion = cache[c]]
        next == CASE r.op \in {"ingest_text", "ingest_file"} -> [got EXCEPT !.pc = "embed"]
                  [] r.op = "create_product" ->
                        [got EXCEPT !.pc = "embed", !.text = r.content,
                                    !.source = product_source(r.id_produit)]
                  [] r.op = "update_product" -> [got EXCEPT !.pc = "vec_delete"]
                  [] r.op = "delete_product" -> [got EXCEPT !.pc = "vec_delete"]
                  [] r.op = "bulk_create_products" -> [got EXCEPT !.pc = "bulk_next", !.idx = 0]
                  [] r.op = "extract_image" -> [got EXCEPT !.pc = "item_next", !.idx = 0]
                  [] r.op = "extract_pdf" -> [got EXCEPT !.pc = "pdf_page", !.page_num = 0]
    IN /\ r.pc = "get_ingestion"
       /\ ingestion_instances' = cache
       /\ chroma' = IF cache = ingestion_instances THEN chroma
                     ELSE get_or_create_collection(chroma, cache[c].collection)
       /\ req' = [req EXCEPT ![w] = next]
       /\ DbUnchanged /\ Others /\ UNCHANGED last_ingest

\* try: ingestion.collection.delete(where={"source": f"product_{id_produit}"})
\* except: pass
vec_delete(w) ==
    LET r == req[w]
        name == r.ingestion.collection
        src == product_source(r.id_produit)
    IN /\ r.pc = "vec_delete"
       /\ \E ok \in BOOLEAN :
            LET t == Append1(r.trace, IF ok THEN "vec_delete" ELSE "vec_delete_raised")
                next == IF r.op = "update_product"
                        THEN [r EXCEPT !.pc = "embed", !.text = r.content, !.source = src,
                                       !.trace = t]
                        ELSE [r EXCEPT !.pc = "db_delete", !.trace = t]
            IN /\ chroma' = IF ok THEN [chroma EXCEPT ![name] = collection_delete(@, src)]
                            ELSE chroma
               /\ last_ingest' = IF ok /\ last_ingest.collection = name THEN NoCall
                                 ELSE last_ingest
               /\ req' = [req EXCEPT ![w] = next]
       /\ DbUnchanged /\ Others /\ UNCHANGED ingestion_instances

\* the loops that wrap the writes of one item in try/except and go on with the
\* next item: the extraction route (except Exception: pass) and ingest_products
ItemLoops == {"extract_image", "extract_pdf", "ingest_products"}

\* the loops that have both writes of an item in one try
OneTryLoops == {"extract_image", "extract_pdf"}

\* the name of the uploaded file of POST /extract/pdf
PdfFilename == "doc.pdf"

\* p["source_file"] = f"{file.filename}_page_{page_num}"
page_source_file(page_num) == PdfFilename \o "_page_" \o ToString(page_num)

page_idMut_no_page(id_produit, page_num) == id_produit \o "_p"
\* p["id_produit"] = f"{p['id_produit']}_p{page_num}"
page_id(id_produit, page_num) == id_produit \o "_p" \o ToString(page_num)

\* an exception leaves ingest_text: the item loops catch it and go to the next
\* item, every other handler answers 500
Raised(r) ==
    LET x == [r EXCEPT !.call = "raised",
                       !.failed = IF r.idx > 0 THEN @ \cup {r.idx} ELSE @]
    IN IF r.op \in ItemLoops THEN [x EXCEPT !.pc = "item_next"] ELSE Respond(x, 500)

\* ingest_text returns to its caller
Returned(r) ==
    CASE r.op = "bulk_create_products" -> [r EXCEPT !.pc = "bulk_next"]
      [] r.op \in ItemLoops -> [r EXCEPT !.pc = "item_next"]
      [] OTHER -> Respond(r, 200)

\* ingest_text, first half: chunks = split_text(text); embeddings = embed_documents(chunks).
\* The embedding service may fail.
embed_chunks(w) ==
    LET r == req[w]
        name == r.ingestion.collection
        entered == [r EXCEPT !.chunks = split_text(r.text), !.before = chroma[name],
                             !.prev = last_ingest, !.chunks_count = -1]
    IN /\ r.pc = "embed"
       /\ \E ok \in BOOLEAN :
            req' = [req EXCEPT ![w] =
                      IF ok THEN [entered EXCEPT !.pc = "add", !.call = "active"]
                      ELSE Raised(entered)]
       /\ DbUnchanged /\ Others /\ UNCHANGED <<chroma, ingestion_instances, last_ingest>>

\* ingest_text, second half: ids = [f"{source}_{i}" ...]; collection.add(...); return len(chunks).
\* add refuses an empty batch (ValueError) and may fail as a whole; it applies
\* the batch in one step.
add_chunks(w) ==
    LET r == req[w]
        name == r.ingestion.collection
        batch == IF r.op = "ingest_file"
                 THEN ingest_file_batch(r.chunks, r.file_path, r.client_id)
                 ELSE ingest_batch(r.chunks, r.source, r.client_id)
        returned == [r EXCEPT !.call = "returned", !.chunks_count = Len(r.chunks),
                              !.trace = Append1(r.trace, "vec_add")]
    IN /\ r.pc = "add"
       /\ \E ok \in BOOLEAN :
            IF ok /\ Len(r.chunks) > 0
            THEN /\ chroma' = [chroma EXCEPT ![name] = collection_add(@, batch)]
                 /\ last_ingest' = [collection |-> name, source |-> r.source, text |-> r.text,
                                     chunks |-> r.chunks]
                 /\ req' = [req EXCEPT ![w] = Returned(returned)]
            ELSE /\ req' = [req EXCEPT ![w] = Raised(r)]
                 /\ UNCHANGED <<chroma, last_ingest>>
       /\ DbUnchanged /\ Others /\ UNCHANGED ingestion_instances

VecUnchanged == UNCHANGED <<chroma, ingestion_instances, last_ingest>>

\* create_product: created = db.create_product(client_id, product_data), which is
\* create_client(client_id) and then the upsert, each in a transaction of its own
create_product_row(w) ==
    LET r == req[w]
        c == r.client_id
        rows == Upsert(products, product_seq + 1, clock + 2, c, r.product)
        done == [r EXCEPT !.row = db_get_product(rows, c, r.id_produit),
                          !.trace = Append1(r.trace, "row")]
    IN /\ r.pc = "db_create"
       /\ clients' = db_create_client(clients, clock + 1, c, NONE)
       /\ products' = rows
       /\ product_seq' = product_seq + 1
       /\ clock' = clock + 2
       /\ req' = [req EXCEPT ![w] =
                    IF Truthy(r.content) THEN [done EXCEPT !.pc = "get_ingestion"]
                    ELSE Respond(done, 200)]
       /\ VecUnchanged /\ Others

update_product_getMut_no_check(w) ==
    /\ req[w].pc = "db_get"
    /\ clock' = clock + 1
    /\ req' = [req EXCEPT ![w] = [req[w] EXCEPT !.pc = "db_update"]]
    /\ UNCHANGED <<clients, products, product_seq>>
    /\ VecUnchanged /\ Others
\* update_product: existing = db.get_product(...); if not existing: 404
update_product_get(w) ==
    LET r == req[w]
        existing == db_get_product(products, r.client_id, r.id_produit)
    IN /\ r.pc = "db_get"
       /\ clock' = clock + 1
       /\ req' = [req EXCEPT ![w] =
                    IF existing = {} THEN Respond(r, 404) ELSE [r EXCEPT !.pc = "db_update"]]
       /\ UNCHANGED <<clients, products, product_seq>>
       /\ VecUnchanged /\ Others

\* update_product: updated = db.update_product(client_id, id_produit, product_data)
update_product_row(w) ==
    LET r == req[w]
        c == r.client_id
        rows == db_update_rows(products, clock + 1, c, r.id_produit, r.product)
        done == [r EXCEPT !.row = db_get_product(rows, c, r.id_produit),
                          !.trace = Append1(r.trace, "row")]
    IN /\ r.pc = "db_update"
       /\ products' = rows
       /\ clock' = clock + 1
       /\ req' = [req EXCEPT ![w] =
                    IF Truthy(r.content) THEN [done EXCEPT !.pc = "get_ingestion"]
                    ELSE Respond(done, 200)]
       /\ UNCHANGED <<clients, product_seq>>
       /\ VecUnchanged /\ Others

\* delete_product: deleted = db.delete_product(...); if not deleted: 404
delete_product_row(w) ==
    LET r == req[w]
        c == r.client_id
        deleted == Where(products, c, r.id_produit) # {}
    IN /\ r.pc = "db_delete"
       /\ products' = db_delete_rows(products, c, r.id_produit)
       /\ clock' = clock + 1
       /\ req' = [req EXCEPT ![w] =
                    Respond([r EXCEPT !.trace = Append1(r.trace, "row_delete")],
                            IF deleted THEN 200 ELSE 404)]
       /\ UNCHANGED <<clients, product_seq>>
       /\ VecUnchanged /\ Others

\* bulk_create_products: count = db.bulk_upsert_products(client_id, products_data),
\* which is create_client(client_id) and then every upsert in one transaction
bulk_upsert_products(w) ==
    LET r == req[w]
        c == r.client_id
    IN /\ r.pc = "db_bulk"
       /\ clients' = db_create_client(clients, clock + 1, c, NONE)
       /\ products' = UpsertAll(products, product_seq, clock + 2, c, r.items)
       /\ product_seq' = product_seq + Len(r.items)
       /\ clock' = clock + 2
       /\ req' = [req EXCEPT ![w] =
                    [r EXCEPT !.pc = "get_ingestion", !.trace = Append1(r.trace, "row")]]
       /\ VecUnchanged /\ Others

\* the deletion of the client's row, in one transaction with the cascade
delete_client(w) ==
    LET r == req[w]
        c == r.client_id
    IN /\ r.pc = "db_delete_client"
       /\ clients' = db_delete_client_rows(clients, c)
       /\ products' = on_delete_cascade(products, c)
       /\ clock' = clock + 1
       /\ req' = [req EXCEPT ![w] =
                    Respond([r EXCEPT !.trace = Append1(r.trace, "client_delete")], 200)]
       /\ UNCHANGED product_seq
       /\ VecUnchanged /\ Others

\* bulk_create_products: for p in products: if p.content: ingestion.ingest_text(...)
bulk_next(w) ==
    LET r == req[w]
        p == r.items[r.idx + 1]
    IN /\ r.pc = "bulk_next"
       /\ req' = [req EXCEPT ![w] =
                    IF r.idx = Len(r.items) THEN Respond(r, 200)
                    ELSE IF Truthy(p["content"])
                         THEN [r EXCEPT !.idx = r.idx + 1, !.pc = "embed", !.call = "none",
                                        !.text = p["content"],
                                        !.source = product_source(p["id_produit"])]
                         ELSE [r EXCEPT !.idx = r.idx + 1]]
       /\ DbUnchanged /\ VecUnchanged /\ Others

\* ingest_products, before its loop: create_client(client_id, name=client_id);
\* ingestion = TextIngestion(client_id=client_id), an instance of its own
ingest_products_init(w) ==
    LET r == req[w]
        c == r.client_id
        ingestion == TextIngestion(c, r.n)
    IN /\ r.pc = "ingest_products_init"
       /\ clients' = db_create_client(clients, clock + 1, c, c)
       /\ clock' = clock + 1
       /\ chroma' = get_or_create_collection(chroma, ingestion.collection)
       /\ req' = [req EXCEPT ![w] = [r EXCEPT !.ingestion = ingestion, !.pc = "item_next", !.idx = 0]]
       /\ UNCHANGED <<products, product_seq, ingestion_instances, last_ingest>>
       /\ Others

\* for product in products: the next item, or the end of the loop
item_next(w) ==
    LET r == req[w]
        p == r.items[r.idx + 1]
        \* the PDF route marks the product with its page before it persists it
        marked == [p EXCEPT !["source_file"] = page_source_file(r.page_num),
                            !["id_produit"] = page_id(p["id_produit"], r.page_num)]
    IN /\ r.pc = "item_next"
       /\ req' = [req EXCEPT ![w] =
                    IF r.idx = Len(r.items)
                    THEN IF r.op = "extract_pdf" THEN [r EXCEPT !.pc = "pdf_page"]
                         ELSE Respond(r, 200)
                    ELSE IF r.op = "extract_pdf"
                         THEN [r EXCEPT !.idx = r.idx + 1, !.call = "none",
                                        !.items[r.idx + 1] = marked,
                                        !.all_products = Append1(@, marked),
                                        !.origin = Append1(@, [page |-> r.page_num,
                                                               raw |-> p["id_produit"]]),
                                        !.pc = IF r.save_to_db THEN "item_row" ELSE "item_next"]
                         ELSE [r EXCEPT !.idx = r.idx + 1, !.pc = "item_row", !.call = "none"]]
       /\ DbUnchanged /\ VecUnchanged /\ Others

\* the writes of one item: try: db.create_product(client_id, product), then
\* if content: ingestion.ingest_text(content, source=f"product_{id_produit}").
\* create_product may raise in create_client or in its own transaction. The
\* extraction route has both writes in one try, so a failing create_product
\* skips the item's ingest_text; ingest_products has a try around each write.
item_row(w) ==
    LET r == req[w]
        c == r.client_id
        p == r.items[r.idx]
        ingest(x) == IF Truthy(Get(p, "content"))
                     THEN [x EXCEPT !.pc = "embed", !.text = p["content"],
                                    !.source = product_source(p["id_produit"])]
                     ELSE [x EXCEPT !.pc = "item_next"]
        raised == [r EXCEPT !.failed = @ \cup {r.idx},
                            !.trace = Append1(r.trace, "row_raised")]
    IN /\ r.pc = "item_row"
       /\ \/ /\ clients' = db_create_client(clients, clock + 1, c, NONE)
             /\ products' = Upsert(products, product_seq + 1, clock + 2, c, p)
             /\ product_seq' = product_seq + 1
             /\ clock' = clock + 2
             /\ req' = [req EXCEPT ![w] = ingest([r EXCEPT !.trace = Append1(r.trace, "row")])]
          \/ /\ \/ UNCHANGED <<clients, clock>>
                \/ /\ clients' = db_create_client(clients, clock + 1, c, NONE)
                   /\ clock' = clock + 1
             /\ UNCHANGED <<products, product_seq>>
             /\ req' = [req EXCEPT ![w] =
                          IF r.op \in OneTryLoops THEN [raised EXCEPT !.pc = "item_next"]
                          ELSE ingest(raised)]
       /\ VecUnchanged /\ Others

-----------------------------------------------------------------------------
(* Retrieval: retrieval.py *)

\* the cosine distance the index reports between a query vector and a stored
\* vector, in hundredths
Distance(query_embedding, embedding) ==
    IF query_embedding = embedding THEN 0
    ELSE IF embedding = embed("y") THEN 40 ELSE 70

query_ordersMut_exact_k(coll, query_embedding, top_k) ==
    LET d(rec) == Distance(query_embedding, rec.embedding)
    IN {o \in [1..top_k -> coll] :
          /\ \A i, j \in 1..top_k : i < j => o[i] # o[j] /\ d(o[i]) <= d(o[j])
          /\ \A rec \in coll : (\A i \in 1..top_k : o[i] # rec) =>
                                  \A i \in 1..top_k : d(o[i]) <= d(rec)}
\* collection.query(query_embeddings=[q], n_results=top_k): the orders in which
\* the index may return its nearest records (records at equal distance in any order)
query_orders(coll, query_embedding, top_k) ==
    LET n == Min(top_k, Cardinality(coll))
        d(rec) == Distance(query_embedding, rec.embedding)
    IN {o \in [1..n -> coll] :
          /\ \A i, j \in 1..n : i < j => o[i] # o[j] /\ d(o[i]) <= d(o[j])
          /\ \A rec \in coll : (\A i \in 1..n : o[i] # rec) =>
                                  \A i \in 1..n : d(o[i]) <= d(rec)}

search_resultsMut_distance_as_score(order, query_embedding) ==
    [i \in 1..Len(order) |->
       [text |-> order[i].document, source |-> order[i].source,
        score |-> Distance(query_embedding, order[i].embedding)]]
search_resultsMut_no_source(order, query_embedding) ==
    [i \in 1..Len(order) |->
       [text |-> order[i].document, source |-> "unknown",
        score |-> 100 - Distance(query_embedding, order[i].embedding)]]
\* the list search builds from the index's answer: text, source and 1 - distance
\* (the score in hundredths)
search_results(order, query_embedding) ==
    [i \in 1..Len(order) |->
       [text |-> order[i].document, source |-> order[i].source,
        score |-> 100 - Distance(query_embedding, order[i].embedding)]]

\* RAGAgent.get_text_retriever(client_id): the tenant's TextRetriever, built on
\* first use; TextRetriever.__init__ -> _init_chroma gets or creates the collection
get_text_retriever(w) ==
    LET r == req[w]
        c == r.client_id
        cache == cache_lookup(text_retrievers, c, TextRetriever(c, r.n))
    IN /\ r.pc = "get_text_retriever"
       /\ text_retrievers' = cache
       /\ chroma' = IF cache = text_retrievers THEN chroma
                     ELSE get_or_create_collection(chroma, cache[c].collection)
       /\ req' = [req EXCEPT ![w] = [r EXCEPT !.pc = "search", !.text_retriever = cache[c]]]
       /\ DbUnchanged /\ UNCHANGED <<ingestion_instances, nreq, concurrent, last_ingest>>

\* TextRetriever.search(query, top_k): embed_query, which may fail, then
\* collection.query, which raises when the index has no answer to give, then
\* the list of documents built from the answer
search(w) ==
    LET r == req[w]
        coll == chroma[r.text_retriever.collection]
        q == embed(r.query)
        answers == query_orders(coll, q, r.top_k)
    IN /\ r.pc = "search"
       /\ \/ req' = [req EXCEPT ![w] =
                       Respond([r EXCEPT !.trace = Append1(r.trace, "embed_query_raised")], 500)]
          \/ /\ answers = {}
             /\ req' = [req EXCEPT ![w] =
                          Respond([r EXCEPT !.trace = Append1(r.trace, "query_raised")], 500)]
          \/ \E o \in answers :
                LET found == [r EXCEPT !.answer = o, !.results = search_results(o, q),
                                       !.trace = Append1(r.trace, "query")]
                IN req' = [req EXCEPT ![w] =
                             IF r.op = "query" THEN [found EXCEPT !.pc = "get_context"]
                             ELSE Respond(found, 200)]
       /\ DbUnchanged /\ VecUnchanged /\ Others

RECURSIVE joinMut_trailing_separator(_, _)
joinMut_trailing_separator(sep, texts) ==
    IF texts = <<>> THEN "" ELSE Head(texts) \o sep \o joinMut_trailing_separator(sep, Tail(texts))
RECURSIVE join(_, _)
\* sep.join(texts)
join(sep, texts) ==
    IF texts = <<>> THEN ""
    ELSE IF Len(texts) = 1 THEN Head(texts)
         ELSE Head(texts) \o sep \o join(sep, Tail(texts))

\* get_context, after docs = self.search(query, top_k):
\* context = "\n\n".join([doc["text"] for doc in docs])
get_context(w) ==
    LET r == req[w]
        texts == [i \in 1..Len(r.results) |-> r.results[i].text]
    IN /\ r.pc = "get_context"
       /\ req' = [req EXCEPT ![w] =
                    [r EXCEPT !.context = join("\n\n", texts), !.pc = "chain_invoke"]]
       /\ DbUnchanged /\ VecUnchanged /\ Others

chain_inputMut_fixed_context(context, question) ==
    [context |-> "Realisation d'agent RAG", question |-> question]
\* the input of self.chain.invoke
chain_input(context, question) == [context |-> context, question |-> question]

\* the language model's answer to a prompt (temperature 0)
llm(input) == "answer(" \o input.question \o "|" \o input.context \o ")"

\* RAGAgent.query: response = self.chain.invoke({...}); return response.
\* The call may fail; api.query turns the exception into a 500.
chain_invoke(w) ==
    LET r == req[w]
        input == chain_input(r.context, r.query)
        called(outcome) ==
            [r EXCEPT !.llm_calls = Append1(r.llm_calls, [input |-> input, outcome |-> outcome])]
    IN /\ r.pc = "chain_invoke"
       /\ \/ req' = [req EXCEPT ![w] =
                       Respond([called("returned") EXCEPT !.response = llm(input)], 200)]
          \/ req' = [req EXCEPT ![w] = Respond(called("raised"), 500)]
       /\ DbUnchanged /\ VecUnchanged /\ Others

-----------------------------------------------------------------------------
(* Vision adapter: vision_extraction.py *)

\* The raw response of the vision model as the sequence of its lexical pieces:
\* the brackets, the comma, object literals, a number literal, a word of prose.
ObjectTokens == {"A", "B"}
NumberTokens == {"7"}
RawTokens == {"[", "]", ",", "w"} \cup ObjectTokens \cup NumberTokens
MaxRawLen == 5
RawResponses == UNION { [1..n -> RawTokens] : n \in 0..MaxRawLen }

\* JSON values as Python holds them: the type and the text str() gives
Str(s) == [t |-> "str", s |-> s]
Num(s) == [t |-> "num", s |-> s]
None == [t |-> "null", s |-> "None"]
ABSENT == [t |-> "absent", s |-> ""]     \* the key is not in the dict

OptionalFields == {"titre", "marque", "description", "prix_actuel", "prix_barre",
                   "reduction", "categorie", "public_cible"}
VisionFields == {"id_produit"} \cup OptionalFields

\* a product object of the model's answer
product_dict(pairs) ==
    [k \in VisionFields |-> IF k \in DOMAIN pairs THEN pairs[k] ELSE ABSENT]

\* the objects the literals A and B stand for
Object(token) ==
    IF token = "A"
    THEN product_dict([id_produit |-> Str("a"), titre |-> Str("T"), prix_actuel |-> Num("5")])
    ELSE product_dict([marque |-> Str("M")])

\* product.get(key, default)
dict_get(product, key, default) == IF product[key] = ABSENT THEN default ELSE product[key]

boolMut_not_none(v) == v.t \notin {"absent", "null"}
\* the truth value of a value: if product.get("titre")
bool(v) ==
    CASE v.t = "str" -> v.s # ""
      [] v.t = "num" -> v.s # "0"
      [] OTHER -> FALSE

\* build_content_text(product)
build_content_text(product) ==
    LET part(key, label, unit) ==
            IF bool(dict_get(product, key, None))
            THEN << label \o product[key].s \o unit >> ELSE << >>
    IN join(". ", part("titre", "Produit: ", "")
                  \o part("marque", "Marque: ", "")
                  \o part("description", "Description: ", "")
                  \o part("prix_actuel", "Prix: ", " EUR")
                  \o part("prix_barre", "Ancien prix: ", " EUR")
                  \o part("reduction", "Reduction: ", "")
                  \o part("categorie", "Categorie: ", "")
                  \o part("public_cible", "Pour: ", ""))

\* normalize_product(product), product a dict
normalize_product(product) ==
    [id_produit |-> dict_get(product, "id_produit", Str("unknown")),
     source_file |-> "vision_extraction",
     content |-> build_content_text(product),
     metadata |->
        [titre_legende |-> dict_get(product, "titre", Str("")),
         description |-> dict_get(product, "description", Str("")),
         marque |-> dict_get(product, "marque", Str("")),
         prix_principal |-> [FLC |-> dict_get(product, "prix_actuel", Str("")).s,
                             PrixDetailsFLc |-> ""],
         prix_barre |-> [FLC |-> dict_get(product, "prix_barre", Str("")).s,
                         PrixDetailsFLc |-> ""],
         reduction |-> dict_get(product, "reduction", Str("")).s,
         categorie |-> dict_get(product, "categorie", Str("")),
         public_cible |-> dict_get(product, "public_cible", Str("")),
         image_path |-> ""]]

\* the values json.loads builds
JsonValue(kind, token, items) == [kind |-> kind, token |-> token, items |-> items]
\* json.loads raises json.JSONDecodeError
JSONDecodeError == [ok |-> FALSE, value |-> JsonValue("none", "", << >>), rest |-> << >>]

RECURSIVE json_value(_)
RECURSIVE json_elements(_, _)
\* the JSON value at the head of the pieces, and the pieces after it
json_value(ts) ==
    IF ts = << >> THEN JSONDecodeError
    ELSE IF Head(ts) \in ObjectTokens
         THEN [ok |-> TRUE, value |-> JsonValue("object", Head(ts), << >>), rest |-> Tail(ts)]
    ELSE IF Head(ts) \in NumberTokens
         THEN [ok |-> TRUE, value |-> JsonValue("number", Head(ts), << >>), rest |-> Tail(ts)]
    ELSE IF Head(ts) = "["
         THEN IF Tail(ts) # << >> /\ Head(Tail(ts)) = "]"
              THEN [ok |-> TRUE, value |-> JsonValue("array", "", << >>), rest |-> Tail(Tail(ts))]
              ELSE json_elements(Tail(ts), << >>)
    ELSE JSONDecodeError
\* the elements of an array after its opening bracket
json_elements(ts, acc) ==
    LET v == json_value(ts)
    IN IF ~v.ok \/ v.rest = << >> THEN JSONDecodeError
       ELSE IF Head(v.rest) = "]"
            THEN [ok |-> TRUE, value |-> JsonValue("array", "", Append1(acc, v.value)), rest |-> Tail(v.rest)]
       ELSE IF Head(v.rest) = ","
            THEN json_elements(Tail(v.rest), Append1(acc, v.value))
       ELSE JSONDecodeError

\* json.loads(text): the text must be one JSON value
json_loads(ts) ==
    LET v == json_value(ts)
    IN IF v.ok /\ v.rest = << >> THEN v ELSE JSONDecodeError

\* re.search(r'\[.*\]', raw_response, re.DOTALL): the leftmost "[" and, the
\* star being greedy, everything up to the last "]" of the response
re_search(raw) ==
    LET opening == {i \in 1..Len(raw) : raw[i] = "["}
        first == CHOOSE i \in opening : \A j \in opening : i <= j
        closing == {i \in 1..Len(raw) : raw[i] = "]" /\ i > first}
        last == CHOOSE i \in closing : \A j \in closing : i >= j
    IN IF opening = {} THEN [found |-> FALSE, group |-> << >>]
       ELSE IF closing = {} THEN [found |-> FALSE, group |-> << >>]
       ELSE [found |-> TRUE, group |-> SubSeq(raw, first, last)]

\* the outcome of a call: the exception that left it, or the list it returned
Returns(list) == [exception |-> NONE, value |-> list]
Raises(exception) == [exception |-> exception, value |-> << >>]

\* normalize_products(products): normalize_product calls product.get, which
\* only a dict has
normalize_products(array) ==
    IF \E i \in 1..Len(array.items) : array.items[i].kind # "object"
    THEN Raises("AttributeError")
    ELSE Returns([i \in 1..Len(array.items) |->
                     normalize_product(Object(array.items[i].token))])

\* parse_json_response(raw_response): only json.JSONDecodeError is caught
parse_json_response(raw) ==
    LET json_match == re_search(raw)
        embedded == json_loads(json_match.group)
        whole == json_loads(raw)
    IN IF json_match.found /\ embedded.ok THEN normalize_products(embedded.value)
       ELSE IF ~whole.ok THEN Returns(<< >>)
       ELSE IF whole.value.kind = "array" THEN normalize_products(whole.value)
       ELSE IF whole.value.kind = "object"
            THEN Returns(<< normalize_product(Object(whole.value.token)) >>)
       ELSE Raises("AttributeError")

\* the products build_content_text is called with: every field absent, empty
\* or given
VisionProducts ==
    { product_dict([id_produit |-> Str("a"), titre |-> ti, marque |-> ma, description |-> de,
                    prix_actuel |-> pa, prix_barre |-> pb, reduction |-> re, categorie |-> ca,
                    public_cible |-> pc]) :
        ti \in {ABSENT, Str(""), Str("T")}, ma \in {ABSENT, Str("M")},
        de \in {ABSENT, None, Str("D")}, pa \in {ABSENT, Num("0"), Num("5")},
        pb \in {ABSENT, Num("9")}, re \in {ABSENT, Str(""), Str("-20%")},
        ca \in {ABSENT, Str("ski")}, pc \in {ABSENT, Str("adulte")} }

\* a call of parse_json_response(raw_response)
parse_json_response_call(raw) ==
    [IdleReq EXCEPT !.op = "parse_json_response", !.pc = "parse", !.n = 1, !.raw = raw]

\* a call of build_content_text(product)
build_content_text_call(product) ==
    [IdleReq EXCEPT !.op = "build_content_text", !.pc = "build", !.n = 1, !.product = product]

\* the call returns or raises
parse_json_response_step(w) ==
    LET r == req[w]
        out == parse_json_response(r.raw)
    IN /\ r.pc = "parse"
       /\ req' = [req EXCEPT ![w] = [r EXCEPT !.pc = "done", !.exception = out.exception,
                                              !.results = out.value]]
       /\ DbUnchanged /\ VecUnchanged /\ Others

build_content_text_step(w) ==
    LET r == req[w]
    IN /\ r.pc = "build"
       /\ req' = [req EXCEPT ![w] = [r EXCEPT !.pc = "done",
                                              !.content_text = build_content_text(r.product)]]
       /\ DbUnchanged /\ VecUnchanged /\ Others

\* the ids the vision model gives to the products of a page: the product's
\* name, also one that ends in a page marker itself
RawIds == {"a", "a_p1"}

\* a product as extract_products_from_base64 returns it
PdfProduct(raw_id) ==
    ProductData(raw_id, "vision_extraction", IF raw_id = "a" THEN "x" ELSE "", "{m}")

\* the page numbers of the PDF: enumerate(images, 1)
PageNumbers == {1, 2}

\* the products of the pages of a PDF: none or one per page
PdfDocuments == [PageNumbers -> {<< >>} \cup {<< PdfProduct(id) >> : id \in RawIds}]

\* POST /extract/pdf, once convert_from_bytes has returned the page images
extract_pdf_request(w) ==
    \E doc \in PdfDocuments, save \in BOOLEAN :
        Accept(w, [NewReq("extract_pdf", "A", IF save THEN "get_ingestion" ELSE "pdf_page") EXCEPT
                      !.pages = doc, !.save_to_db = save])

\* for page_num, image in enumerate(images, 1): page_products =
\* extract_products_from_base64(img_base64), which may raise (the handler then
\* answers 500); after the last page the response carries all_products
pdf_page(w) ==
    LET r == req[w]
    IN /\ r.pc = "pdf_page"
       /\ \/ /\ r.page_num = Len(r.pages)
             /\ req' = [req EXCEPT ![w] = Respond([r EXCEPT !.results = r.all_products], 200)]
          \/ /\ r.page_num < Len(r.pages)
             /\ \/ req' = [req EXCEPT ![w] =
                             [r EXCEPT !.page_num = @ + 1, !.items = r.pages[r.page_num + 1],
                                       !.idx = 0, !.pc = "item_next"]]
                \/ req' = [req EXCEPT ![w] =
                             Respond([r EXCEPT !.page_num = @ + 1,
                                               !.trace = Append1(@, "extract_raised")], 500)]
       /\ DbUnchanged /\ VecUnchanged /\ Others

-----------------------------------------------------------------------------
(* Relational store, statement by statement: database.py *)

NoTx == [clients |-> {}, products |-> {}, now |-> 0]

\* psycopg2.connect(**POSTGRES_CONFIG) in get_db_connection: a new connection,
\* held by the function that entered the with block
connect(fn, cl, rows) ==
    [fn |-> fn, open |-> TRUE, committed |-> FALSE,
     stmts |-> << >>,         \* history: the functions that executed a statement on it
     seen |-> [clients |-> cl, products |-> rows]]   \* history: the tables when it was opened

connection_exitMut_no_finally(conn, raised) ==
    IF raised THEN conn ELSE [conn EXCEPT !.open = FALSE]
\* get_db_connection: try: yield conn; finally: conn.close()
connection_exit(conn, raised) == [conn EXCEPT !.open = FALSE]

ListLimits == {1, DefaultLimit}
ListOffsets == {0, 1}

\* the product data and the batches the functions are called with
DbProducts(p) == { ProductData(p, "f.html", "x", "{t}") }
DbUpdates == { UpdateData(NONE, "yz", NONE) }
DbBatches == { << ProductData("p1", NONE, "yz", NONE) >>,
               << ProductData("p2", NONE, "x", NONE), ProductData("p1", NONE, "yz", NONE) >>,
               << ProductData("p1", NONE, "x", NONE), ProductData("p1", "f.html", "yz", NONE) >> }

\* the calls of the functions of database.py; create_product and
\* bulk_upsert_products begin with create_client(client_id)
DbCalls ==
    LET Call(c, fn, outer) ==
            [NewReq("db_call", c, "db_connect") EXCEPT !.fn = fn, !.outer = outer]
    IN UNION { {[Call(c, "create_client", NONE) EXCEPT !.name = n] : n \in {NONE, "shop"}}
               \cup UNION { {[Call(c, "create_client", "create_product") EXCEPT
                                 !.id_produit = p, !.product = body] : body \in DbProducts(p)}
                            \cup {[Call(c, "get_product", NONE) EXCEPT !.id_produit = p],
                                  [Call(c, "delete_product", NONE) EXCEPT !.id_produit = p]}
                            \cup {[Call(c, "update_product", NONE) EXCEPT
                                      !.id_produit = p, !.product = body] : body \in DbUpdates}
                            : p \in ProductIds }
               \cup {[Call(c, "list_products", NONE) EXCEPT !.limit = l, !.offset = o] :
                        l \in ListLimits, o \in ListOffsets}
               \cup {[Call(c, "create_client", "bulk_upsert_products") EXCEPT !.items = items] :
                        items \in DbBatches}
               : c \in ClientIds }

db_call_request(w) == \E call \in DbCalls : Accept(w, call)

\* with get_db_connection() as conn: connect, which may raise
db_connect(w) ==
    LET r == req[w]
    IN /\ r.pc = "db_connect"
       /\ \/ req' = [req EXCEPT ![w] =
                       [r EXCEPT !.conns = Append1(@, connect(r.fn, clients, products)),
                                 !.tx = [clients |-> clients, products |-> products,
                                         now |-> clock + 1],
                                 !.stmt = 0, !.pc = "db_execute"]]
          \/ req' = [req EXCEPT ![w] = [r EXCEPT !.exception = "OperationalError", !.pc = "done"]]
       /\ DbUnchanged /\ VecUnchanged /\ Others

\* cur.execute(...): the statement of the function (one per item in
\* bulk_upsert_products) on the function's connection; it may raise. Its effect
\* stays inside the transaction; nextval of the id sequence is not transactional.
db_execute(w) ==
    LET r == req[w]
        c == r.client_id
        tx == r.tx
        k == Len(r.conns)
        used == [r EXCEPT !.conns[k].stmts = Append1(@, r.fn), !.stmt = @ + 1]
        inserts == r.fn \in {"create_product", "bulk_upsert_products"}
        item == IF r.fn = "bulk_upsert_products" THEN r.items[r.stmt + 1] ELSE r.product
        last == r.fn # "bulk_upsert_products" \/ r.stmt + 1 = Len(r.items)
        next == IF ~last THEN "db_execute"
                ELSE IF r.fn \in {"get_product", "list_products"} THEN "db_close"
                ELSE "db_commit"
        rows == CASE inserts -> Upsert(tx.products, product_seq + 1, tx.now, c, item)
                  [] r.fn = "update_product" ->
                        db_update_rows(tx.products, tx.now, c, r.id_produit, r.product)
                  [] r.fn = "delete_product" -> db_delete_rows(tx.products, c, r.id_produit)
                  [] OTHER -> tx.products
        cl == IF r.fn = "create_client" THEN db_create_client(tx.clients, tx.now, c, r.name)
              ELSE tx.clients
        fetched == CASE r.fn = "create_product" -> db_get_product(rows, c, item["id_produit"])
                     [] r.fn \in {"get_product", "update_product"} ->
                           db_get_product(rows, c, r.id_produit)
                     [] r.fn = "delete_product" -> Where(tx.products, c, r.id_produit)
                     [] OTHER -> r.row
        ran == [used EXCEPT !.tx = [clients |-> cl, products |-> rows, now |-> tx.now],
                            !.row = fetched, !.pc = next]
    IN /\ r.pc = "db_execute"
       /\ \/ /\ req' = [req EXCEPT ![w] =
                          [used EXCEPT !.exception = "DatabaseError", !.pc = "db_close"]]
             /\ UNCHANGED product_seq
          \/ /\ r.fn # "list_products"
             /\ req' = [req EXCEPT ![w] = ran]
             /\ product_seq' = IF inserts THEN product_seq + 1 ELSE product_seq
          \/ /\ r.fn = "list_products"
             /\ \E l \in db_list_products(tx.products, c, r.limit, r.offset) :
                   req' = [req EXCEPT ![w] = [ran EXCEPT !.results = l]]
             /\ UNCHANGED product_seq
       /\ UNCHANGED <<clients, products, clock>>
       /\ VecUnchanged /\ Others

\* conn.commit(): the transaction's changes become the tables; it may raise
db_commit(w) ==
    LET r == req[w]
        k == Len(r.conns)
    IN /\ r.pc = "db_commit"
       /\ \/ /\ clients' = r.tx.clients
             /\ products' = r.tx.products
             /\ clock' = r.tx.now
             /\ req' = [req EXCEPT ![w] =
                          [r EXCEPT !.conns[k].committed = TRUE, !.pc = "db_close",
                                    !.count = IF r.fn = "bulk_upsert_products"
                                              THEN Len(r.items) ELSE @]]
          \/ /\ UNCHANGED <<clients, products, clock>>
             /\ req' = [req EXCEPT ![w] =
                          [r EXCEPT !.exception = "DatabaseError", !.pc = "db_close"]]
       /\ UNCHANGED product_seq
       /\ VecUnchanged /\ Others

db_closeMut_keeps_statements(w) ==
    LET r == req[w]
        k == Len(r.conns)
        raised == r.exception # NONE
        closed == [r EXCEPT !.conns[k] = connection_exit(@, raised), !.tx = NoTx]
    IN /\ r.pc = "db_close"
       /\ req' = [req EXCEPT ![w] =
                    IF raised THEN [closed EXCEPT !.pc = "done"]
                    ELSE IF r.outer # NONE
                         THEN [closed EXCEPT !.fn = r.outer, !.outer = NONE, !.pc = "db_connect"]
                    ELSE [closed EXCEPT !.pc = "done"]]
       /\ products' = IF raised /\ r.stmt > 1 THEN r.tx.products ELSE products
       /\ UNCHANGED <<clients, product_seq, clock>>
       /\ VecUnchanged /\ Others
\* the with block of get_db_connection is left, by return or by an exception:
\* the connection is closed, which discards what it has not committed; an
\* exception goes on to the caller, create_client returns to the function that
\* called it, which opens its own connection
db_close(w) ==
    LET r == req[w]
        k == Len(r.conns)
        raised == r.exception # NONE
        closed == [r EXCEPT !.conns[k] = connection_exit(@, raised), !.tx = NoTx]
    IN /\ r.pc = "db_close"
       /\ req' = [req EXCEPT ![w] =
                    IF raised THEN [closed EXCEPT !.pc = "done"]
                    ELSE IF r.outer # NONE
                         THEN [closed EXCEPT !.fn = r.outer, !.outer = NONE, !.pc = "db_connect"]
                    ELSE [closed EXCEPT !.pc = "done"]]
       /\ DbUnchanged /\ VecUnchanged /\ Others

-----------------------------------------------------------------------------
(* Specification *)

Init ==
    /\ clients = {}
    /\ products = {}
    /\ product_seq = 0
    /\ clock = 0
    /\ chroma = <<>>
    /\ ingestion_instances = <<>>
    /\ text_retrievers = <<>>
    /\ req = [w \in Workers |-> IdleReq]
    /\ nreq = 0
    /\ concurrent = FALSE
    /\ last_ingest = NoCall

Next ==
    \E w \in Workers :
        \/ ingest_text_request(w)
        \/ create_product_request(w)
        \/ update_product_request(w)
        \/ delete_product_request(w)
        \/ bulk_create_products_request(w)
        \/ search_request(w)
        \/ get_ingestion(w)
        \/ vec_delete(w)
        \/ embed_chunks(w)
        \/ add_chunks(w)
        \/ create_product_row(w)
        \/ update_product_get(w)
        \/ update_product_row(w)
        \/ delete_product_row(w)
        \/ bulk_upsert_products(w)
        \/ bulk_next(w)
        \/ get_text_retriever(w)
        \/ search(w)

Spec == Init /\ [][Next]_vars

\* The stores outlive the process (init_database creates the tables only if
\* they do not exist, the vector store is a PersistentClient): the service
\* starts either on empty stores or on the stores an earlier run left after
\* tenant B created product p1 with content "x".
InitPersisted ==
    /\ \/ /\ clients = {} /\ products = {} /\ product_seq = 0 /\ clock = 0
          /\ chroma = <<>>
       \/ /\ clients = db_create_client({}, 1, "B", NONE)
          /\ products = Upsert({}, 1, 2, "B", ProductData("p1", NONE, "x", NONE))
          /\ product_seq = 1 /\ clock = 2
          /\ chroma = (collection_name("B") :>
                          collection_add({}, ingest_batch(split_text("x"), product_source("p1"), "B")))
    /\ ingestion_instances = <<>>
    /\ text_retrievers = <<>>
    /\ req = [w \in Workers |-> IdleReq]
    /\ nreq = 0
    /\ concurrent = FALSE
    /\ last_ingest = NoCall

\* ingestion of texts and questions to the agent
NextAgent ==
    \E w \in Workers :
        \/ ingest_text_request(w)
        \/ query_request(w)
        \/ get_ingestion(w)
        \/ embed_chunks(w)
        \/ add_chunks(w)
        \/ get_text_retriever(w)
        \/ search(w)
        \/ get_context(w)
        \/ chain_invoke(w)

SpecAgent == Init /\ [][NextAgent]_vars

\* the ingestion of batches of products
NextBatch ==
    \E w \in Workers :
        \/ bulk_create_products_request(w)
        \/ extract_image_request(w)
        \/ ingest_products_request(w)
        \/ get_ingestion(w)
        \/ bulk_upsert_products(w)
        \/ bulk_next(w)
        \/ ingest_products_init(w)
        \/ item_next(w)
        \/ item_row(w)
        \/ embed_chunks(w)
        \/ add_chunks(w)

SpecBatch == Init /\ [][NextBatch]_vars

\* Requests in flight together: a second request is accepted while the first
\* has not finished, and the steps of the two handlers interleave at every
\* step boundary. A step itself runs undivided, as a stretch of handler code
\* without await does on the event loop.
InitConcurrent ==
    /\ clients = {}
    /\ products = {}
    /\ product_seq = 0
    /\ clock = 0
    /\ chroma = <<>>
    /\ ingestion_instances = <<>>
    /\ text_retrievers = <<>>
    /\ req = [w \in Workers |-> IdleReq]
    /\ nreq = 0
    /\ concurrent = TRUE
    /\ last_ingest = NoCall

SpecConcurrent == InitConcurrent /\ [][NextAgent]_vars

\* product writes and the deletion of clients
NextCascade ==
    \E w \in Workers :
        \/ create_product_request(w)
        \/ bulk_create_products_request(w)
        \/ delete_client_request(w)
        \/ get_ingestion(w)
        \/ embed_chunks(w)
        \/ add_chunks(w)
        \/ create_product_row(w)
        \/ bulk_upsert_products(w)
        \/ bulk_next(w)
        \/ delete_client(w)

SpecCascade == InitPersisted /\ [][NextCascade]_vars

\* The functions of the vision adapter, each called once with one of its inputs
InitVision ==
    /\ clients = {} /\ products = {} /\ product_seq = 0 /\ clock = 0
    /\ chroma = <<>>
    /\ ingestion_instances = <<>>
    /\ text_retrievers = <<>>
    /\ \E call \in {parse_json_response_call(raw) : raw \in RawResponses}
                   \cup {build_content_text_call(p) : p \in VisionProducts} :
          req = [w \in Workers |-> IF w = 1 THEN call ELSE IdleReq]
    /\ nreq = 1
    /\ concurrent = FALSE
    /\ last_ingest = NoCall

NextVision ==
    \E w \in Workers :
        \/ parse_json_response_step(w)
        \/ build_content_text_step(w)

SpecVision == InitVision /\ [][NextVision]_vars

\* the extraction of the products of a PDF
NextPdf ==
    \E w \in Workers :
        \/ extract_pdf_request(w)
        \/ get_ingestion(w)
        \/ pdf_page(w)
        \/ item_next(w)
        \/ item_row(w)
        \/ embed_chunks(w)
        \/ add_chunks(w)

SpecPdf == Init /\ [][NextPdf]_vars

\* The tables outlive the process: the service starts on empty tables or on the
\* tables an earlier run left after tenant A created p1 and then p2 and tenant
\* B created p1, all without content.
InitStored ==
    /\ \/ /\ clients = {} /\ products = {} /\ product_seq = 0 /\ clock = 0
       \/ /\ clients = db_create_client(db_create_client({}, 1, "A", NONE), 5, "B", NONE)
          /\ products = Upsert(Upsert(Upsert({}, 1, 2, "A", ProductData("p1", NONE, NONE, NONE)),
                                      2, 4, "A", ProductData("p2", NONE, NONE, NONE)),
                               3, 6, "B", ProductData("p1", NONE, NONE, NONE))
          /\ product_seq = 3 /\ clock = 6
    /\ chroma = <<>>
    /\ ingestion_instances = <<>>
    /\ text_retrievers = <<>>
    /\ req = [w \in Workers |-> IdleReq]
    /\ nreq = 0
    /\ concurrent = FALSE
    /\ last_ingest = NoCall

\* calls of the functions of database.py
NextDb ==
    \E w \in Workers :
        \/ db_call_request(w)
        \/ db_connect(w)
        \/ db_execute(w)
        \/ db_commit(w)
        \/ db_close(w)

SpecDb == InitStored /\ [][NextDb]_vars

\* ingestion of texts and searches, on stores an earlier run may have left
NextSearch ==
    \E w \in Workers :
        \/ ingest_text_request(w)
        \/ search_request(w)
        \/ get_ingestion(w)
        \/ embed_chunks(w)
        \/ add_chunks(w)
        \/ get_text_retriever(w)
        \/ search(w)

SpecSearch == InitPersisted /\ [][NextSearch]_vars

\* ingestion of texts and files
NextFiles ==
    \E w \in Workers :
        \/ ingest_text_request(w)
        \/ ingest_file_request(w)
        \/ get_ingestion(w)
        \/ embed_chunks(w)
        \/ add_chunks(w)

SpecFiles == Init /\ [][NextFiles]_vars

\* Updates of one product by independent workers: the stores hold tenant B's
\* product p1 with content "x", and update requests are in flight together.
\* Each worker is a process of its own on the shared stores; between two store
\* operations of one handler the other worker may run. (Within one process a
\* handler has no await and runs to its end before the next request starts.)
\* A worker's get_ingestion gets or creates the tenant's collection, whether or
\* not another worker holds an instance for the tenant.
InitUpdates ==
    /\ clients = db_create_client({}, 1, "B", NONE)
    /\ products = Upsert({}, 1, 2, "B", ProductData("p1", NONE, "x", NONE))
    /\ product_seq = 1 /\ clock = 2
    /\ chroma = (collection_name("B") :>
                    collection_add({}, ingest_batch(split_text("x"), product_source("p1"), "B")))
    /\ ingestion_instances = <<>>
    /\ text_retrievers = <<>>
    /\ req = [w \in Workers |-> IdleReq]
    /\ nreq = 0
    /\ concurrent = TRUE
    /\ last_ingest = NoCall

NextUpdates ==
    \E w \in Workers :
        \/ update_product_request(w)
        \/ update_product_get(w)
        \/ update_product_row(w)
        \/ get_ingestion(w)
        \/ vec_delete(w)
        \/ embed_chunks(w)
        \/ add_chunks(w)

SpecUpdates == InitUpdates /\ [][NextUpdates]_vars

\* ingestion of texts under labels that resemble each other's record ids
NextLabels ==
    \E w \in Workers :
        \/ ingest_label_request(w)
        \/ get_ingestion(w)
        \/ embed_chunks(w)
        \/ add_chunks(w)

SpecLabels == Init /\ [][NextLabels]_vars


-----------------------------------------------------------------------------
(* Properties *)

\* the tenant's collection as the request's TextIngestion sees it
CollectionOf(r) == chroma[r.ingestion.collection]

\* the records ingest_text builds for a text under a source label
Expected(text, source, writer) ==
    LET b == ingest_batch(split_text(text), source, writer)
    IN {b[i] : i \in 1..Len(b)}

WithSource(coll, source) == {rec \in coll : rec.source = source}

Old(r, name) == IF name \in DOMAIN r.pre.chroma THEN r.pre.chroma[name] ELSE {}

\* C1: a search for tenant A returns only texts of records of A's own
\* collection, and A's collection holds only records built by A's requests,
\* never one ingested by another tenant.
C1_TenantIsolation ==
    /\ \A c \in ClientIds :
          collection_name(c) \in DOMAIN chroma =>
             \A rec \in chroma[collection_name(c)] : rec.writer = c
    /\ \A w \in Workers :
          LET r == req[w]
          IN (r.op = "search" /\ r.pc = "done" /\ r.status = 200) =>
                \A i \in 1..Len(r.results) :
                   \E rec \in chroma[collection_name(r.client_id)] :
                      /\ rec.document = r.results[i].text
                      /\ rec.source = r.results[i].source
                      /\ rec.writer = r.client_id

\* a search of one tenant has answered while another tenant's collection holds records
C1_Witness ==
    \E w \in Workers : \E c \in ClientIds :
        /\ req[w].op = "search" /\ req[w].pc = "done" /\ req[w].status = 200
        /\ c # req[w].client_id
        /\ collection_name(c) \in DOMAIN chroma
        /\ chroma[collection_name(c)] # {}

\* C2: a product create or update request that carries content and succeeds
\* has written the relational row, then deleted the vectors of source
\* product_{id}, then inserted the fresh chunks, in this order.
C2_RowThenDeleteThenInsert ==
    \A w \in Workers :
        LET r == req[w]
        IN (r.op \in {"create_product", "update_product"} /\ r.pc = "done"
              /\ r.status = 200 /\ Truthy(r.content)) =>
              r.trace = <<"row", "vec_delete", "vec_add">>

\* C3: after a successful update_product with non-empty content the records of
\* source product_{id} in the tenant's collection are exactly the chunks of the
\* new content.
C3_UpdateReplacesVectors ==
    \A w \in Workers :
        LET r == req[w]
        IN (r.op = "update_product" /\ r.pc = "done" /\ r.status = 200 /\ Truthy(r.content)) =>
              WithSource(CollectionOf(r), product_source(r.id_produit))
                 = Expected(r.content, product_source(r.id_produit), r.client_id)

\* C4: from the purge of update_product / delete_product for product X of
\* tenant T to the end of the request, every record that is not a record of
\* T's collection with source product_X is as it was when the request arrived,
\* and the purge itself adds nothing.
C4_PurgeFrame ==
    \A w \in Workers :
        LET r == req[w]
            mine(name, rec) == /\ name = collection_name(r.client_id)
                               /\ rec.source = product_source(r.id_produit)
        IN (r.op \in {"update_product", "delete_product"}
              /\ r.pc \in {"embed", "add", "db_delete", "done"}) =>
              \A name \in DOMAIN chroma :
                 /\ {rec \in chroma[name] : ~mine(name, rec)}
                       = {rec \in Old(r, name) : ~mine(name, rec)}
                 /\ r.pc \in {"embed", "db_delete"} => chroma[name] \subseteq Old(r, name)

\* a purge has removed the records of product X and left another record of the
\* same collection in place
C4_Witness ==
    \E w \in Workers :
        LET r == req[w]
            name == collection_name(r.client_id)
            src == product_source(r.id_produit)
        IN /\ r.op \in {"update_product", "delete_product"}
           /\ r.pc \in {"embed", "db_delete"}
           /\ name \in DOMAIN r.pre.chroma
           /\ WithSource(r.pre.chroma[name], src) # {}
           /\ WithSource(chroma[name], src) = {}
           /\ chroma[name] # {}

\* the call is the second of two consecutive ingest_text calls with one source
\* label on one collection
Reingest(r) ==
    /\ r.call = "returned"
    /\ r.prev.collection = r.ingestion.collection
    /\ r.prev.source = r.source

\* C5: after ingest_text(c1, s) followed by ingest_text(c2, s) on one
\* collection, every record s_i with i below the chunk count of c2 holds
\* chunk i of c2 and its embedding.
C5_ReingestOverwrites ==
    \A w \in Workers :
        LET r == req[w]
        IN Reingest(r) =>
              \A i \in 1..Len(r.chunks) :
                 \E rec \in CollectionOf(r) :
                    /\ rec.id = chunk_id(r.source, i - 1)
                    /\ rec.document = r.chunks[i]
                    /\ rec.embedding = embed(r.chunks[i])

\* C6: when ingest_text(c1, s) wrote n chunks and the next ingest_text(c2, s)
\* on the collection yields m <= n chunks, the second call leaves the record
\* count as it was and the ids s_m .. s_{n-1} are still present.
C6_ShorterReingestAddsNothing ==
    \A w \in Workers :
        LET r == req[w]
        IN (Reingest(r) /\ Len(r.chunks) <= Len(r.prev.chunks)) =>
              /\ Cardinality(CollectionOf(r)) = Cardinality(r.before)
              /\ \A i \in Len(r.chunks)..(Len(r.prev.chunks) - 1) :
                    chunk_id(r.source, i) \in Ids(CollectionOf(r))

\* a second ingestion with fewer chunks than the first has returned
C6_Witness ==
    \E w \in Workers :
        /\ Reingest(req[w])
        /\ Len(req[w].chunks) < Len(req[w].prev.chunks)
        /\ req[w].chunks # req[w].prev.chunks

\* C7: an ingest_text call that returns has written exactly one record per
\* chunk, the i-th with id s_i, text chunk i and metadata source s, and returns
\* the chunk count.
C7_IngestWritesChunks ==
    \A w \in Workers :
        LET r == req[w]
        IN r.call = "returned" =>
              /\ r.chunks_count = Len(r.chunks)
              /\ Cardinality(CollectionOf(r) \ r.before) = Len(r.chunks)
              /\ \A i \in 1..Len(r.chunks) :
                    \E rec \in CollectionOf(r) \ r.before :
                       /\ rec.id = chunk_id(r.source, i - 1)
                       /\ rec.document = r.chunks[i]
                       /\ rec.source = r.source

\* C8: an ingest_text call that fails leaves the collection as it was, and one
\* that succeeds leaves every chunk of the call visible under its id.
C8_IngestAllOrNothing ==
    \A w \in Workers :
        LET r == req[w]
        IN /\ r.call = "raised" => CollectionOf(r) = r.before
           /\ r.call = "returned" =>
                 \A i \in 1..Len(r.chunks) :
                    \E rec \in CollectionOf(r) :
                       rec.id = chunk_id(r.source, i - 1) /\ rec.document = r.chunks[i]

\* the row stored for the product of a request
RowsFor(rows, r) == Where(rows, r.client_id, r.id_produit)

\* C9: database.create_product called for a (client_id, id_produit) whose row
\* already holds the payload's values leaves exactly one row for the pair, with
\* the same id, id_produit, client_id, content, source_file, metadata and
\* created_at, and a strictly greater updated_at.
C9_UpsertIdempotent ==
    \A w \in Workers :
        LET r == req[w]
            same(o) == /\ o.source_file = Get(r.product, "source_file")
                       /\ o.content = Get(r.product, "content")
                       /\ o.metadata = JsonMetadata(r.product)
        IN (r.op = "create_product" /\ r.pc # "db_create") =>
              \A o \in RowsFor(r.pre.products, r) :
                 same(o) =>
                    /\ Cardinality(RowsFor(products, r)) = 1
                    /\ \A n \in RowsFor(products, r) :
                          /\ n = [o EXCEPT !.updated_at = n.updated_at]
                          /\ n.updated_at > o.updated_at

\* create_product has run a second time with the payload the row already held
C9_Witness ==
    \E w \in Workers :
        LET r == req[w]
        IN /\ r.op = "create_product" /\ r.pc = "done" /\ r.status = 200
           /\ \E o \in RowsFor(r.pre.products, r) :
                 /\ o.source_file = Get(r.product, "source_file")
                 /\ o.content = Get(r.product, "content")
                 /\ o.metadata = JsonMetadata(r.product)
                 /\ o.content = "x"

\* C10: the products table never holds two rows with one (client_id,
\* id_produit) pair, and a request of one client leaves the rows of every
\* other client as they were, also the rows with the same id_produit.
C10_UniqueProductKey ==
    /\ \A a, b \in products :
          (a.client_id = b.client_id /\ a.id_produit = b.id_produit) => a = b
    /\ \A w \in Workers :
          LET r == req[w]
          IN r.op # "idle" =>
                {o \in products : o.client_id # r.client_id}
                   = {o \in r.pre.products : o.client_id # r.client_id}

\* one id_produit is stored under two clients, the second by a request that
\* found the first in place
C10_Witness ==
    \E w \in Workers : \E a, b \in products :
        /\ a.id_produit = b.id_produit /\ a.client_id # b.client_id
        /\ req[w].pc = "done" /\ req[w].op \in {"create_product", "bulk_create_products"}
        /\ a \in req[w].pre.products /\ b \notin req[w].pre.products

\* the client has a row in the clients table
Registered(cl, client_id) == \E c \in cl : c.client_id = client_id

\* the items a product request writes
ItemsOf(r) == IF r.op = "create_product" THEN <<r.product>> ELSE r.items

\* C11: create_product and bulk_upsert_products called for a client_id that
\* has no clients row create that row and write the product rows, and in
\* every state each product row's client_id has a row in the clients table.
C11_ImplicitClient ==
    /\ \A p \in products : Registered(clients, p.client_id)
    /\ \A w \in Workers :
          LET r == req[w]
          IN (r.op \in {"create_product", "bulk_create_products"}
                /\ r.pc \notin {"db_create", "db_bulk"}
                /\ ~Registered(r.pre.clients, r.client_id)) =>
                /\ Registered(clients, r.client_id)
                /\ \A i \in 1..Len(ItemsOf(r)) :
                      Where(products, r.client_id, ItemsOf(r)[i]["id_produit"]) # {}

\* a product request of a client that was never registered has written its rows
C11_Witness ==
    \E w \in Workers :
        LET r == req[w]
        IN /\ r.op \in {"create_product", "bulk_create_products"} /\ r.pc = "done"
           /\ ~Registered(r.pre.clients, r.client_id)
           /\ r.pre.clients # {}
           /\ Where(products, r.client_id, ItemsOf(r)[1]["id_produit"]) # {}

\* C13: after a delete_product request that answered with success, get_product
\* finds no row for (client, id) and the client's collection holds no record
\* with source product_{id}.
C13_DeleteRemovesRowAndVectors ==
    \A w \in Workers :
        LET r == req[w]
        IN (r.op = "delete_product" /\ r.pc = "done" /\ r.status = 200) =>
              /\ db_get_product(products, r.client_id, r.id_produit) = {}
              /\ WithSource(CollectionOf(r), product_source(r.id_produit)) = {}

\* C14: an update_product request for a (client, id) without a row answers 404
\* and leaves the clients table, the products table and every collection as
\* they were when it arrived.
C14_UpdateMissingIs404 ==
    \A w \in Workers :
        LET r == req[w]
        IN (r.op = "update_product" /\ RowsFor(r.pre.products, r) = {}) =>
              /\ r.pc = "done" => r.status = 404
              /\ products = r.pre.products
              /\ clients = r.pre.clients
              /\ chroma = r.pre.chroma

\* an update of a missing product has been answered while the client owns
\* another product and vectors
C14_Witness ==
    \E w \in Workers :
        LET r == req[w]
        IN /\ r.op = "update_product" /\ r.pc = "done" /\ r.status = 404
           /\ \E o \in products : o.client_id = r.client_id
           /\ collection_name(r.client_id) \in DOMAIN chroma
           /\ chroma[collection_name(r.client_id)] # {}

\* the request issued the store operation e
InTrace(r, e) == \E i \in 1..Len(r.trace) : r.trace[i] = e

\* C15: search(query, top_k) returns at most top_k results, one per record of
\* the index's answer and in the answer's order, nearest first; each result
\* carries the text and source of its record and the score 1 - distance
\* (in hundredths: 100 - distance).
C15_SearchKeepsIndexOrder ==
    \A w \in Workers :
        LET r == req[w]
            q == embed(r.query)
        IN (r.op = "search" /\ r.pc = "done" /\ r.status = 200) =>
              /\ Len(r.results) <= r.top_k
              /\ Len(r.results) = Len(r.answer)
              /\ Len(r.results) = Min(r.top_k, Cardinality(chroma[collection_name(r.client_id)]))
              /\ \A i \in 1..Len(r.results) :
                    /\ r.answer[i] \in chroma[collection_name(r.client_id)]
                    /\ r.results[i].text = r.answer[i].document
                    /\ r.results[i].source = r.answer[i].source
                    /\ r.results[i].score = 100 - Distance(q, r.answer[i].embedding)
              /\ \A i, j \in 1..Len(r.results) :
                    i < j => /\ r.results[i].score >= r.results[j].score
                             /\ r.answer[i] # r.answer[j]
              /\ \A rec \in chroma[collection_name(r.client_id)] :
                    (\A i \in 1..Len(r.answer) : r.answer[i] # rec) =>
                       \A i \in 1..Len(r.results) :
                          r.results[i].score >= 100 - Distance(q, rec.embedding)

\* a search has returned two results with different scores
C15_Witness ==
    \E w \in Workers :
        LET r == req[w]
        IN /\ r.op = "search" /\ r.pc = "done" /\ r.status = 200
           /\ Len(r.results) = 2
           /\ r.results[1].score > r.results[2].score
           /\ r.results[1].text # r.results[2].text

\* C16: a search on a tenant collection without records, also one created by
\* the search itself for a tenant never seen before, returns the empty list;
\* it ends in an error only when the embedding of the query itself failed.
C16_SearchOnEmptyCollection ==
    \A w \in Workers :
        LET r == req[w]
        IN (r.op = "search" /\ r.pc = "done"
              /\ chroma[collection_name(r.client_id)] = {}
              /\ ~InTrace(r, "embed_query_raised")) =>
              r.status = 200 /\ r.results = <<>>

\* a search of a tenant whose collection did not exist has answered
C16_Witness ==
    \E w \in Workers :
        LET r == req[w]
        IN /\ r.op = "search" /\ r.pc = "done" /\ r.status = 200
           /\ collection_name(r.client_id) \notin DOMAIN r.pre.chroma
           /\ r.pre.chroma # <<>>
           /\ r.results = <<>>

\* C12: after the deletion of a client's row, list_products(client_id) is
\* empty, get_product(client_id, id) finds nothing for every id the client
\* owned, and the rows of the other clients are as they were.
C12_ClientDeleteCascades ==
    \A w \in Workers :
        LET r == req[w]
            c == r.client_id
        IN (r.op = "delete_client" /\ r.pc = "done") =>
              /\ db_list_products(products, c, DefaultLimit, 0) = {<<>>}
              /\ \A o \in r.pre.products :
                    o.client_id = c => db_get_product(products, c, o.id_produit) = {}
              /\ {o \in products : o.client_id # c}
                    = {o \in r.pre.products : o.client_id # c}
              /\ ~Registered(clients, c)

\* a client that owned products has been deleted while another client owns products
C12_Witness ==
    \E w \in Workers :
        LET r == req[w]
        IN /\ r.op = "delete_client" /\ r.pc = "done"
           /\ \E o \in r.pre.products : o.client_id = r.client_id
           /\ \E o \in products : o.client_id # r.client_id

RECURSIVE BlankLineJoined(_, _)
\* the first n texts, each two separated by an empty line
BlankLineJoined(texts, n) ==
    IF n = 0 THEN ""
    ELSE IF n = 1 THEN texts[1]
         ELSE BlankLineJoined(texts, n - 1) \o "\n\n" \o texts[n]

\* retrieval has returned to the request
Retrieved(r) == r.pc \in {"chain_invoke", "done"} /\ InTrace(r, "query")

\* C17: get_context(query, top_k) is the texts of search(query, top_k), in
\* result order, joined by an empty line, and the empty string when search
\* returned no hit.
C17_ContextJoinsTexts ==
    \A w \in Workers :
        LET r == req[w]
        IN (r.op = "query" /\ Retrieved(r)) =>
              /\ r.context = BlankLineJoined([i \in 1..Len(r.results) |-> r.results[i].text],
                                             Len(r.results))
              /\ r.results = <<>> => r.context = ""
              /\ Len(r.results) = 2 =>
                    r.context = r.results[1].text \o "\n\n" \o r.results[2].text

\* get_context has joined two texts
C17_Witness ==
    \E w \in Workers :
        LET r == req[w]
        IN /\ r.op = "query" /\ Retrieved(r)
           /\ Len(r.results) = 2
           /\ r.results[1].text # r.results[2].text
           /\ r.context # NONE

\* C18: a query calls the language model at most once and only after
\* retrieval has returned; a query whose retrieval returned has issued exactly
\* one call when it ends, with the context get_context returned (the empty
\* string when there was no hit) and the question; a call that fails is not
\* repeated and the query ends in an error.
C18_OneModelCall ==
    \A w \in Workers :
        LET r == req[w]
        IN r.op = "query" =>
              /\ Len(r.llm_calls) <= 1
              /\ r.pc # "done" => r.llm_calls = <<>>
              /\ (r.pc = "done" /\ ~InTrace(r, "query")) =>
                    r.llm_calls = <<>> /\ r.status = 500
              /\ (r.pc = "done" /\ InTrace(r, "query")) =>
                    /\ Len(r.llm_calls) = 1
                    /\ r.llm_calls[1].input.context = r.context
                    /\ r.llm_calls[1].input.question = r.query
                    /\ r.results = <<>> => r.llm_calls[1].input.context = ""
                    /\ r.llm_calls[1].outcome = "raised" => r.status = 500
                    /\ r.llm_calls[1].outcome = "returned" =>
                          r.status = 200 /\ r.response = llm(r.llm_calls[1].input)

\* a query without hits has called the language model with an empty context,
\* and the call failed
C18_Witness ==
    \E w \in Workers :
        LET r == req[w]
        IN /\ r.op = "query" /\ r.pc = "done"
           /\ r.results = <<>>
           /\ Len(r.llm_calls) = 1
           /\ r.llm_calls[1].input.context = ""
           /\ r.llm_calls[1].outcome = "raised"
           /\ r.status = 500

\* the entries of a cache stay as they are in a step
Kept(cache, cache2) ==
    \A c \in DOMAIN cache : c \in DOMAIN cache2 /\ cache2[c] = cache[c]

\* C19: the tenant caches ingestion_instances and text_retrievers start
\* empty; a step adds an entry only for the tenant of a request that looks its
\* instance up, never removes an entry and never replaces the instance of an
\* entry, also while two first-use requests of one tenant are in flight; the
\* lookup hands the request the instance the cache holds.
C19_CachesAppendOnly ==
    [][ /\ Kept(ingestion_instances, ingestion_instances')
        /\ Kept(text_retrievers, text_retrievers')
        /\ \A c \in DOMAIN ingestion_instances' \ DOMAIN ingestion_instances :
              \E w \in Workers : req[w].pc = "get_ingestion" /\ req[w].client_id = c
        /\ \A c \in DOMAIN text_retrievers' \ DOMAIN text_retrievers :
              \E w \in Workers : req[w].pc = "get_text_retriever" /\ req[w].client_id = c
        /\ \A w \in Workers :
              /\ (req[w].pc = "get_ingestion" /\ req'[w].pc # "get_ingestion") =>
                    /\ req'[w].ingestion = ingestion_instances'[req[w].client_id]
                    /\ req[w].client_id \in DOMAIN ingestion_instances =>
                          req'[w].ingestion = ingestion_instances[req[w].client_id]
              /\ (req[w].pc = "get_text_retriever" /\ req'[w].pc # "get_text_retriever") =>
                    /\ req'[w].text_retriever = text_retrievers'[req[w].client_id]
                    /\ req[w].client_id \in DOMAIN text_retrievers =>
                          req'[w].text_retriever = text_retrievers[req[w].client_id]
      ]_vars

\* two requests of one tenant in flight together hold the same instance, which
\* the request that arrived second constructed before the first looked it up
C19_Witness ==
    \E v, w \in Workers :
        /\ req[v].n = 1 /\ req[w].n = 2
        /\ req[v].client_id = req[w].client_id
        /\ req[v].pc # "done" /\ req[w].pc # "done"
        /\ req[v].op = req[w].op
        /\ \/ /\ req[v].ingestion = req[w].ingestion
              /\ req[v].ingestion = TextIngestion(req[v].client_id, 2)
           \/ /\ req[v].text_retriever = req[w].text_retriever
              /\ req[v].text_retriever = TextRetriever(req[v].client_id, 2)

\* the handlers that write a batch of products
BatchOps == {"bulk_create_products", "extract_image", "ingest_products"}

\* item j of a finished batch is in both stores: its row, and one record per
\* chunk of its content under the ids product_{id}_i
Persisted(r, j) ==
    LET p == r.items[j]
        source == product_source(p["id_produit"])
    IN /\ Where(products, r.client_id, p["id_produit"]) # {}
       /\ Truthy(Get(p, "content")) =>
             \A i \in 1..Len(split_text(p["content"])) :
                chunk_id(source, i - 1) \in Ids(CollectionOf(r))

\* C20: when a batch handler (the bulk endpoint, the extraction route with
\* persistence, ingest_products) has ended, every item of the batch whose own
\* store writes did not raise is written to both stores, whatever happened to
\* the other items.
C20_BatchContinuesAfterItemFailure ==
    \A w \in Workers :
        LET r == req[w]
        IN (r.op \in BatchOps /\ r.pc = "done") =>
              \A j \in 1..Len(r.items) : j \notin r.failed => Persisted(r, j)

-----------------------------------------------------------------------------
(* The vision adapter *)

\* C21: parse_json_response never raises: for every raw model response (prose,
\* malformed JSON, JSON that is not an array of objects, a JSON scalar, an
\* array of non-objects) it returns a list, and it returns the empty list when
\* neither the embedded-array parse nor the whole-response parse succeeds.
C21_ParseNeverRaises ==
    \A w \in Workers :
        LET r == req[w]
            json_match == re_search(r.raw)
        IN (r.op = "parse_json_response" /\ r.pc = "done") =>
              /\ r.exception = NONE
              /\ ( /\ ~(json_match.found /\ json_loads(json_match.group).ok)
                   /\ ~json_loads(r.raw).ok ) => r.results = << >>

RECURSIVE MatchingBracket(_, _, _)
\* the index of the "]" that closes the bracket opened before index i, depth
\* brackets being open at i; 0 when it is never closed
MatchingBracket(raw, i, depth) ==
    IF i > Len(raw) THEN 0
    ELSE IF raw[i] = "[" THEN MatchingBracket(raw, i + 1, depth + 1)
    ELSE IF raw[i] = "]"
         THEN IF depth = 1 THEN i ELSE MatchingBracket(raw, i + 1, depth - 1)
    ELSE MatchingBracket(raw, i + 1, depth)

\* the first top-level bracketed part of the response, found by bracket matching
FirstArray(raw) ==
    LET opening == {i \in 1..Len(raw) : raw[i] = "["}
        first == CHOOSE i \in opening : \A j \in opening : i <= j
        close == MatchingBracket(raw, first + 1, 1)
    IN IF opening = {} THEN << >>
       ELSE IF close = 0 THEN << >> ELSE SubSeq(raw, first, close)

\* a valid JSON array of product objects
IsProductArray(ts) ==
    LET v == json_loads(ts)
    IN /\ v.ok /\ v.value.kind = "array"
       /\ \A i \in 1..Len(v.value.items) : v.value.items[i].kind = "object"

\* C22: when the model wraps a valid JSON array of product objects in prose,
\* parse_json_response returns the normalized products of the first top-level
\* JSON array found by bracket matching, also when the prose after that array
\* contains further "[" or "]".
C22_FirstArrayByBracketMatching ==
    \A w \in Workers :
        LET r == req[w]
            items == json_loads(FirstArray(r.raw)).value.items
        IN (r.op = "parse_json_response" /\ r.pc = "done" /\ IsProductArray(FirstArray(r.raw))) =>
              /\ r.exception = NONE
              /\ r.results = [i \in 1..Len(items) |-> normalize_product(Object(items[i].token))]

\* the optional fields in the order of the content text
FieldOrder == << "titre", "marque", "description", "prix_actuel", "prix_barre",
                 "reduction", "categorie", "public_cible" >>

\* the labelled part of a field
Labelled(key, text) ==
    CASE key = "titre" -> "Produit: " \o text
      [] key = "marque" -> "Marque: " \o text
      [] key = "description" -> "Description: " \o text
      [] key = "prix_actuel" -> "Prix: " \o text \o " EUR"
      [] key = "prix_barre" -> "Ancien prix: " \o text \o " EUR"
      [] key = "reduction" -> "Reduction: " \o text
      [] key = "categorie" -> "Categorie: " \o text
      [] key = "public_cible" -> "Pour: " \o text

\* a field is present when the product has a value for it that is not null,
\* not the empty string and not the number 0
Present(product, key) ==
    /\ product[key].t \in {"str", "num"}
    /\ product[key].s # ""
    /\ ~(product[key].t = "num" /\ product[key].s = "0")

PresentFields(product) == {k \in OptionalFields : Present(product, k)}

\* the labelled parts of the present fields, in the fixed order
PartsOf(product) ==
    LET keep(k) == Present(product, k)
        keys == SelectSeq(FieldOrder, keep)
    IN [i \in 1..Len(keys) |-> Labelled(keys[i], product[keys[i]].s)]

RECURSIVE DotJoined(_, _)
\* the first n parts, each two separated by ". "
DotJoined(parts, n) ==
    IF n = 0 THEN ""
    ELSE IF n = 1 THEN parts[1]
         ELSE DotJoined(parts, n - 1) \o ". " \o parts[n]

-----------------------------------------------------------------------------
(* The extraction of a PDF *)

\* the text ends with the suffix
EndsWith(text, suffix) ==
    /\ Len(text) >= Len(suffix)
    /\ SubSeq(text, Len(text) - Len(suffix) + 1, Len(text)) = suffix

\* C24: in multi-page PDF extraction every product id is suffixed with
\* _p{page_number}, and two products extracted from different pages of one
\* document never end up with the same final id, whatever raw ids the model
\* emitted (including raw ids that already end in a _p<digits> marker).
C24_PageMarkedIdsDiffer ==
    \A w \in Workers :
        LET r == req[w]
            n == Len(r.all_products)
            id(i) == r.all_products[i]["id_produit"]
        IN r.op = "extract_pdf" =>
              /\ Len(r.origin) = n
              /\ \A i \in 1..n :
                    /\ EndsWith(id(i), "_p" \o ToString(r.origin[i].page))
                    /\ Len(id(i)) = Len(r.origin[i].raw) + Len("_p" \o ToString(r.origin[i].page))
              /\ \A i, j \in 1..n : r.origin[i].page # r.origin[j].page => id(i) # id(j)
              /\ \A o \in products \ r.pre.products : \E i \in 1..n : o.id_produit = id(i)

\* a PDF whose first page gave the raw id a and whose second page gave the raw
\* id a_p1, the final id of the first page, has been extracted and persisted
C24_Witness ==
    \E w \in Workers :
        LET r == req[w]
        IN /\ r.op = "extract_pdf" /\ r.pc = "done" /\ r.status = 200 /\ r.save_to_db
           /\ Len(r.all_products) = 2
           /\ r.origin[1].raw = "a" /\ r.origin[1].page = 1
           /\ r.origin[2].raw = r.all_products[1]["id_produit"] /\ r.origin[2].page = 2
           /\ r.all_products[2]["id_produit"] = "a_p1_p2"
           /\ \E o \in products : o.client_id = r.client_id /\ o.id_produit = "a_p1"
           /\ \E o \in products : o.client_id = r.client_id /\ o.id_produit = "a_p1_p2"

-----------------------------------------------------------------------------
(* The relational store *)

\* C25: every relational operation opens its own connection and that
\* connection is closed on every exit path: after a database function returns
\* or raises (including a failing statement before commit), the connection it
\* opened is closed, the uncommitted changes of that operation are not
\* persisted, and no connection is shared between two operations.
C25_ConnectionPerOperation ==
    \A w \in Workers :
        LET r == req[w]
            n == Len(r.conns)
        IN r.op = "db_call" =>
              /\ \A k \in 1..n :
                    /\ r.conns[k].open =>
                          k = n /\ r.pc \in {"db_execute", "db_commit", "db_close"}
                    /\ \A i \in 1..Len(r.conns[k].stmts) : r.conns[k].stmts[i] = r.conns[k].fn
                    /\ \A j \in 1..n : j # k => r.conns[j].fn # r.conns[k].fn
              /\ r.pc \in {"db_execute", "db_commit", "db_close"} =>
                    n > 0 /\ r.conns[n].fn = r.fn
              /\ (n > 0 /\ ~r.conns[n].committed) =>
                    clients = r.conns[n].seen.clients /\ products = r.conns[n].seen.products
              /\ (n = 0 /\ r.pc = "done") =>
                    clients = r.pre.clients /\ products = r.pre.products

\* create_product has raised in its INSERT after its create_client committed:
\* both connections are closed, the client row is there, the product row is not
C25_Witness ==
    \E w \in Workers :
        LET r == req[w]
        IN /\ r.op = "db_call" /\ r.pc = "done" /\ r.exception # NONE
           /\ r.fn = "create_product"
           /\ Len(r.conns) = 2
           /\ r.conns[1].committed /\ ~r.conns[2].committed
           /\ Len(r.conns[2].stmts) = 1
           /\ ~r.conns[1].open /\ ~r.conns[2].open
           /\ clients # r.pre.clients
           /\ products = r.pre.products

\* the rows of a listing
Listed(l) == {l[i] : i \in 1..Len(l)}

\* a database function has returned
DbReturned(r, fn) == r.op = "db_call" /\ r.fn = fn /\ r.pc = "done" /\ r.exception = NONE

\* C26: list_products(client_id, limit, offset) returns only rows of that
\* client, ordered by updated_at descending (most recently upserted or updated
\* first), skipping the first offset rows and returning at most limit rows; a
\* product that is upserted again moves to the front of the listing.
C26_ListingNewestFirst ==
    \A w \in Workers :
        LET r == req[w]
            l == r.results
            mine == {o \in products : o.client_id = r.client_id}
            n == Cardinality(mine)
            front(ids) ==
                \A f \in db_list_products(products, r.client_id, DefaultLimit, 0) :
                   \A i, j \in 1..Len(f) :
                      (f[j].id_produit \in ids /\ f[i].id_produit \notin ids) => j < i
        IN /\ DbReturned(r, "list_products") =>
                /\ \A i \in 1..Len(l) : l[i] \in mine
                /\ \A i, j \in 1..Len(l) :
                      i < j => l[i] # l[j] /\ l[i].updated_at >= l[j].updated_at
                /\ Len(l) = Min(r.limit, IF n > r.offset THEN n - r.offset ELSE 0)
                /\ \E skipped \in SUBSET (mine \ Listed(l)) :
                      /\ Cardinality(skipped) = Min(r.offset, n)
                      /\ \A s \in skipped : \A i \in 1..Len(l) : s.updated_at >= l[i].updated_at
                      /\ \A t \in mine \ (skipped \cup Listed(l)) :
                            /\ \A i \in 1..Len(l) : t.updated_at <= l[i].updated_at
                            /\ \A s \in skipped : t.updated_at <= s.updated_at
           /\ DbReturned(r, "create_product") =>
                /\ front({r.id_produit})
                /\ \A f \in db_list_products(products, r.client_id, DefaultLimit, 0) :
                      f[1].id_produit = r.id_produit
           /\ (DbReturned(r, "update_product") /\ r.row # {}) => front({r.id_produit})
           /\ DbReturned(r, "bulk_upsert_products") =>
                front({r.items[i]["id_produit"] : i \in 1..Len(r.items)})

\* tenant A, whose p1 was created before p2, has upserted p1 again and then
\* listed its products: p1 comes first, and no row of tenant B is listed
C26_Witness ==
    \E w \in Workers :
        LET r == req[w]
        IN /\ DbReturned(r, "list_products")
           /\ r.limit = DefaultLimit /\ r.offset = 0
           /\ Len(r.results) = 2
           /\ r.results[1].id_produit = "p1" /\ r.results[2].id_produit = "p2"
           /\ r.results[1].created_at < r.results[2].created_at
           /\ r.results[1].updated_at > r.results[2].updated_at
           /\ \E o \in products : o.client_id # r.client_id

-----------------------------------------------------------------------------
(* Search after ingestion *)

\* the query occurs in the text
IsSubstring(query, text) ==
    /\ Len(query) > 0
    /\ \E i \in 1..(Len(text) - Len(query) + 1) : SubSeq(text, i, i + Len(query) - 1) = query

\* a search on the collection into which ingest_text(text, source) returned
\* last, with a query that occurs in text, has returned
SearchedAfterIngest(r) ==
    /\ r.op = "search" /\ r.pc = "done" /\ r.status = 200
    /\ last_ingest.collection = r.text_retriever.collection
    /\ IsSubstring(r.query, last_ingest.text)
    /\ r.top_k >= 1

\* the records of other sources in the collection the search ran on
OtherSources(r) ==
    {rec \in chroma[r.text_retriever.collection] : rec.source # last_ingest.source}

-----------------------------------------------------------------------------
(* Ingestion of files *)

\* the labels that derive from the name of the file
FileLabels(file_path) == {file_path, basename(file_path), base_id(file_path)}

\* C28: ingest_file(path) uses the same write path as ingest_text with one
\* filename-derived source label L: it writes one record per chunk with id
\* "L_i" and metadata source equal to that same L, and returns the chunk
\* count; ingesting the same file twice therefore targets the same ids and
\* the same source value.
C28_FileIngestedUnderOneLabel ==
    \A w \in Workers :
        LET r == req[w]
        IN (r.op = "ingest_file" /\ r.pc = "done" /\ r.status = 200) =>
              /\ r.chunks_count = Len(split_text(r.text))
              /\ \E L \in FileLabels(r.file_path) :
                    \A rec \in CollectionOf(r) \ r.before :
                       rec \in Expected(r.text, L, r.client_id)

-----------------------------------------------------------------------------
(* Agreement of the two stores *)

\* the operations that ingest products
ProductIngestion ==
    {"create_product", "bulk_create_products", "ingest_products", "extract_image", "extract_pdf"}

\* the source labels of products
IsProductSource(source) == Len(source) > 8 /\ SubSeq(source, 1, 8) = "product_"

\* C29: without a crash the two stores do not diverge on product existence:
\* after any product ingestion operation (create, bulk upsert, ingest_products,
\* vision extraction with persistence) has completed, every vector record with
\* metadata source product_{id} in tenant T's collection has a matching
\* relational product row (T, id), also when one of the two writes for an item
\* raised an error.
C29_VectorsHaveRows ==
    \A w \in Workers :
        LET r == req[w]
            name == collection_name(r.client_id)
        IN (r.op \in ProductIngestion /\ r.pc = "done" /\ name \in DOMAIN chroma) =>
              \A rec \in chroma[name] :
                 IsProductSource(rec.source) =>
                    \E o \in products :
                       o.client_id = r.client_id /\ product_source(o.id_produit) = rec.source

\* a completed update of the product with non-empty content whose purge and
\* insert both went through
UpdatedVectors(r) ==
    /\ r.op = "update_product" /\ r.pc = "done" /\ r.status = 200 /\ Truthy(r.content)
    /\ r.trace = <<"row", "vec_delete", "vec_add">>

-----------------------------------------------------------------------------
(* Implicit client creation *)

\* C31: implicit client creation does not disturb an existing client: when
\* create_product or bulk_upsert_products is called for a client_id that
\* already has a clients row, that row's name and created_at are left unchanged.
C31_ImplicitCreationKeepsClient ==
    \A w \in Workers :
        LET r == req[w]
        IN (DbReturned(r, "create_product") \/ DbReturned(r, "bulk_upsert_products")) =>
              \A o \in r.pre.clients :
                 o.client_id = r.client_id =>
                    \E n \in clients :
                       /\ n.client_id = o.client_id
                       /\ n.name = o.name
                       /\ n.created_at = o.created_at

-----------------------------------------------------------------------------
(* bulk_upsert_products *)

\* a call of bulk_upsert_products has ended, by return or by an exception of
\* its create_client or of its own with block
BulkCallEnded(r) ==
    /\ r.op = "db_call" /\ r.pc = "done"
    /\ r.fn = "bulk_upsert_products" \/ r.outer = "bulk_upsert_products"

\* the item whose statement ran last for the id_produit of item i
LastFor(items, i) ==
    LET same == {j \in 1..Len(items) : items[j]["id_produit"] = items[i]["id_produit"]}
    IN items[CHOOSE j \in same : \A k \in same : k <= j]

\* C32: bulk_upsert_products is all-or-nothing on the products table: all items
\* are written in one transaction with a single commit, so if any item's
\* statement fails no item of the call is persisted, and on success every item
\* is persisted (for an id_produit given twice, the values of the later item)
\* and the return value is the length of the input list.
C32_BulkAllOrNothing ==
    \A w \in Workers :
        LET r == req[w]
        IN BulkCallEnded(r) =>
              IF r.exception # NONE
              THEN products = r.pre.products /\ r.count = -1
              ELSE /\ r.count = Len(r.items)
                   /\ Len(r.conns) = 2 /\ r.conns[2].committed
                   /\ Len(r.conns[2].stmts) = Len(r.items)
                   /\ \A i \in 1..Len(r.items) :
                         LET it == LastFor(r.items, i)
                         IN \E o \in products :
                               /\ o.client_id = r.client_id
                               /\ o.id_produit = it["id_produit"]
                               /\ o.content = Get(it, "content")
                               /\ o.source_file = Get(it, "source_file")
                               /\ o.metadata = JsonMetadata(it)
                   /\ \A o \in products :
                         (o \notin r.pre.products) =>
                            \E i \in 1..Len(r.items) :
                               o.client_id = r.client_id /\ o.id_produit = r.items[i]["id_produit"]

\* a call whose second item's statement raised after the first item's ran
C32_Witness ==
    \E w \in Workers :
        LET r == req[w]
        IN /\ BulkCallEnded(r) /\ r.exception = "DatabaseError"
           /\ Len(r.conns) = 2 /\ Len(r.conns[2].stmts) = 2
           /\ ~r.conns[2].committed
           /\ products = r.pre.products

-----------------------------------------------------------------------------
(* delete_product without a row *)

\* C33: a delete_product request for a (client, id) that has no relational row
\* returns not-found and leaves the vector store unchanged: no record is
\* removed and no collection is created by the failed request.
C33_DeleteMissingLeavesVectors ==
    \A w \in Workers :
        LET r == req[w]
        IN (r.op = "delete_product" /\ r.pc = "done" /\ RowsFor(r.pre.products, r) = {}) =>
              /\ r.status = 404
              /\ chroma = r.pre.chroma

-----------------------------------------------------------------------------
(* update_product, field by field *)

\* the fields a ProductUpdateRequest can supply
UpdatableFields == {"source_file", "content", "metadata"}

\* C34: update_product changes only the fields supplied in the request: each of
\* source_file, content and metadata keeps its stored value when it is absent
\* from the request and takes the supplied value when it is present (including
\* a supplied empty metadata map), while updated_at is refreshed and
\* id_produit, client_id and created_at never change.
C34_UpdateOnlySuppliedFields ==
    \A w \in Workers :
        LET r == req[w]
        IN (r.op = "update_product" /\ InTrace(r, "row")) =>
              \A o \in RowsFor(r.pre.products, r) :
                 \E n \in RowsFor(products, r) :
                    /\ \A f \in UpdatableFields :
                          n[f] = IF f \in DOMAIN r.product THEN r.product[f] ELSE o[f]
                    /\ n.updated_at > o.updated_at
                    /\ n.id = o.id /\ n.id_produit = o.id_produit
                    /\ n.client_id = o.client_id /\ n.created_at = o.created_at

-----------------------------------------------------------------------------
(* The vector store after a product request *)

\* the records of a tenant's collection, none when the collection does not exist
RecordsOf(client_id) ==
    IF collection_name(client_id) \in DOMAIN chroma THEN chroma[collection_name(client_id)]
    ELSE {}

\* C35: after a successful product update or create request the vector store
\* reflects the relational content: if the stored content of the product is
\* empty after the request, the tenant's collection holds no record with source
\* product_{id}; if it is non-empty, the records with that source are the
\* chunks of the stored content.
C35_VectorsReflectContent ==
    \A w \in Workers :
        LET r == req[w]
            src == product_source(r.id_produit)
            recs == WithSource(RecordsOf(r.client_id), src)
        IN (r.op \in {"create_product", "update_product"} /\ r.pc = "done" /\ r.status = 200) =>
              \A o \in RowsFor(products, r) :
                 IF Truthy(o.content) THEN recs = Expected(o.content, src, r.client_id)
                 ELSE recs = {}

-----------------------------------------------------------------------------
(* Record ids of different source labels *)

\* C36: within one tenant collection, ingest_text calls with two different
\* source labels never write to the same record id: the id sets {s_i} and {t_j}
\* are disjoint for all labels s # t and all chunk indexes i, j, so ingesting
\* one label never overwrites or blocks a chunk of another label.
C36_LabelsNeverShareIds ==
    \A w \in Workers :
        LET r == req[w]
            coll == CollectionOf(r)
        IN (r.op = "ingest_text" /\ r.pc = "done" /\ r.status = 200) =>
              /\ \A rec \in coll :
                    rec.source # r.source =>
                       /\ rec \in r.before
                       /\ \A i \in 1..Len(r.chunks) : rec.id # chunk_id(r.source, i - 1)
              /\ \A rec \in r.before : rec.source # r.source => rec \in coll
              /\ \A i \in 1..Len(r.chunks) :
                    \E rec \in coll :
                       rec.id = chunk_id(r.source, i - 1) /\ rec.source = r.source

\* a text has been ingested under a label that is the id of a record of
\* another label in the collection
C36_Witness ==
    \E w \in Workers :
        LET r == req[w]
        IN /\ r.op = "ingest_text" /\ r.pc = "done" /\ r.status = 200
           /\ \E rec \in CollectionOf(r) : rec.source # r.source /\ rec.id = r.source
           /\ \E rec \in CollectionOf(r) \ r.before : rec.source = r.source

====
